---- MODULE Spec2Model ----
(***************************************************************************)
(* Graph ingestion pipeline of company-radar (backend/ingest.py): the      *)
(* record classifier, the batching writer with its Cypher upserts, and the *)
(* two-pass orchestrator, as a state machine over a Neo4j-like store.      *)
(***************************************************************************)
EXTENDS Integers, Sequences, FiniteSets, TLC

\* ---------------------------------------------------------------- bounds
\* longest input file, in records
MaxLen == 3
\* largest --batch-size tried (batch sizes are 1..MaxBatch)
MaxBatch == 2
\* longest input file of the edge-identifier scenario
MaxLenEdgeIds == 4
\* most rows the traversal query returns
MaxRows == 3
\* most Company records behind a store that is searched
MaxCompanies == 2
\* largest limit a search is given (limits are 0..MaxLimit)
MaxLimit == 2
\* longest file that is read, in pieces
MaxPieces == 4
\* longest input file of the classifier's records
MaxLenClassifier == 2
\* most values in a well-formed file that is read
MaxValues == 3
\* most requests the mock endpoint serves
MaxRequests == 4
\* longest file of the single-pass importer, in entries
MaxEntries == 2
\* the longest file of the runs with edge records lacking an identifier
MaxLenNoId == 3

\* ------------------------------------------------------- values of Python
\* Python's None; also a Cypher null / an absent property
None == "<None>"

\* bool(v) of a str-or-None value
Truthy(v) == v # None /\ v # ""

\* dict.get(key) on a record whose fields are the keys that are present
Get(d, key) == IF key \in DOMAIN d THEN d[key] ELSE None

\* a or b, on str-or-None values
Or(a, b) == IF Truthy(a) THEN a ELSE b

Range(s) == {s[k] : k \in DOMAIN s}

\* ------------------------------------------------------------ classifier
\* A property value is [list |-> <<...>>] or [scalar |-> "..."].
prop_first(entity, key) ==
    LET props == IF "properties" \in DOMAIN entity THEN entity.properties ELSE [x \in {} |-> None]
    IN  IF key \in DOMAIN props /\ "list" \in DOMAIN props[key] /\ props[key].list # <<>>
        THEN props[key].list[1]
        ELSE None

\* entity.get("datasets") or []
datasets_or_empty(entity) ==
    IF "datasets" \in DOMAIN entity THEN entity.datasets ELSE <<>>

to_node_row(entity) ==
    [ id          |-> Get(entity, "id"),
      schema      |-> Get(entity, "schema"),
      name        |-> prop_first(entity, "name"),
      datasets    |-> datasets_or_empty(entity),
      modified_at |-> Or(Get(entity, "modifiedAt"), Get(entity, "modified_at")) ]

\* the result None of to_rel_row
NoRow == [rel_type |-> None]

\* variant: the director is taken as the target, the organization as the source
to_rel_row_mut_Swapped(entity) ==
    LET schema == Get(entity, "schema")
        source_id == IF schema = "Directorship" THEN prop_first(entity, "organization")
                     ELSE prop_first(entity, "owner")
        target_id == IF schema = "Directorship" THEN prop_first(entity, "director")
                     ELSE prop_first(entity, "asset")
        rel_type == IF schema = "Directorship" THEN "DIRECTORSHIP" ELSE "OWNERSHIP"
    IN  IF schema \notin {"Directorship", "Ownership"} THEN NoRow
        ELSE IF ~Truthy(source_id) \/ ~Truthy(target_id) THEN NoRow
        ELSE [ rel_type |-> rel_type,
               row |-> [ id          |-> Get(entity, "id"),
                         schema      |-> schema,
                         source_id   |-> source_id,
                         target_id   |-> target_id,
                         datasets    |-> datasets_or_empty(entity),
                         modified_at |-> Or(Get(entity, "modifiedAt"), Get(entity, "modified_at")) ] ]
\* variant: no row only when both endpoints are missing
to_rel_row_mut_OneEndpoint(entity) ==
    LET schema == Get(entity, "schema")
        source_id == IF schema = "Directorship" THEN prop_first(entity, "director")
                     ELSE prop_first(entity, "owner")
        target_id == IF schema = "Directorship" THEN prop_first(entity, "organization")
                     ELSE prop_first(entity, "asset")
        rel_type == IF schema = "Directorship" THEN "DIRECTORSHIP" ELSE "OWNERSHIP"
    IN  IF schema \notin {"Directorship", "Ownership"} THEN NoRow
        ELSE IF ~Truthy(source_id) /\ ~Truthy(target_id) THEN NoRow
        ELSE [ rel_type |-> rel_type,
               row |-> [ id          |-> Get(entity, "id"),
                         schema      |-> schema,
                         source_id   |-> source_id,
                         target_id   |-> target_id,
                         datasets    |-> datasets_or_empty(entity),
                         modified_at |-> Or(Get(entity, "modifiedAt"), Get(entity, "modified_at")) ] ]
to_rel_row(entity) ==
    LET schema == Get(entity, "schema")
        source_id == IF schema = "Directorship" THEN prop_first(entity, "director")
                     ELSE prop_first(entity, "owner")
        target_id == IF schema = "Directorship" THEN prop_first(entity, "organization")
                     ELSE prop_first(entity, "asset")
        rel_type == IF schema = "Directorship" THEN "DIRECTORSHIP" ELSE "OWNERSHIP"
    IN  IF schema \notin {"Directorship", "Ownership"} THEN NoRow
        ELSE IF ~Truthy(source_id) \/ ~Truthy(target_id) THEN NoRow
        ELSE [ rel_type |-> rel_type,
               row |-> [ id          |-> Get(entity, "id"),
                         schema      |-> schema,
                         source_id   |-> source_id,
                         target_id   |-> target_id,
                         datasets    |-> datasets_or_empty(entity),
                         modified_at |-> Or(Get(entity, "modifiedAt"), Get(entity, "modified_at")) ] ]

\* ------------------------------------------------------------- the store
\* Nodes and relationships in creation order; a node's position is its
\* element id, and a relationship holds the element ids of its endpoints
\* (0: no node).
EmptyStore == [nodes |-> <<>>, edges |-> <<>>]

\* UNWIND row: MERGE (n:<label> {ftm_id: row.id}) SET n.schema, n.name, ...
\* variant: CREATE (n:<label> {...}) in place of MERGE
MergeNode_mut_Create(store, label, row) ==
    [store EXCEPT !.nodes = Append(@,
        [ label |-> label, ftm_id |-> row.id, schema |-> row.schema, name |-> row.name,
          datasets |-> row.datasets, modified_at |-> row.modified_at ])]
\* variant: SET n.name = coalesce(row.name, n.name), and so on: an absent
\* value leaves the stored one
MergeNode_mut_KeepOnNull(store, label, row) ==
    LET hit == {k \in DOMAIN store.nodes :
                   store.nodes[k].label = label /\ store.nodes[k].ftm_id = row.id}
        merged == IF hit = {}
                  THEN Append(store.nodes, [ label |-> label, ftm_id |-> row.id, schema |-> None,
                                             name |-> None, datasets |-> <<>>, modified_at |-> None ])
                  ELSE store.nodes
        bound == IF hit = {} THEN {Len(merged)} ELSE hit
    IN  [store EXCEPT !.nodes =
            [k \in DOMAIN merged |->
                IF k \in bound
                THEN [merged[k] EXCEPT !.schema = row.schema,
                                       !.name = IF row.name = None THEN @ ELSE row.name,
                                       !.datasets = row.datasets,
                                       !.modified_at = IF row.modified_at = None THEN @
                                                       ELSE row.modified_at]
                ELSE merged[k]]]
\* variant: MERGE (n {ftm_id: row.id}) on the identifier alone, the node
\* found being given the row's label in place of its own
MergeNode_mut_Relabel(store, label, row) ==
    LET hit == {k \in DOMAIN store.nodes : store.nodes[k].ftm_id = row.id}
        merged == IF hit = {}
                  THEN Append(store.nodes, [ label |-> label, ftm_id |-> row.id, schema |-> None,
                                             name |-> None, datasets |-> <<>>, modified_at |-> None ])
                  ELSE store.nodes
        bound == IF hit = {} THEN {Len(merged)} ELSE hit
    IN  [store EXCEPT !.nodes =
            [k \in DOMAIN merged |->
                IF k \in bound
                THEN [merged[k] EXCEPT !.label = label, !.schema = row.schema, !.name = row.name,
                                       !.datasets = row.datasets, !.modified_at = row.modified_at]
                ELSE merged[k]]]
MergeNode(store, label, row) ==
    LET hit == {k \in DOMAIN store.nodes :
                   store.nodes[k].label = label /\ store.nodes[k].ftm_id = row.id}
        merged == IF hit = {}
                  THEN Append(store.nodes, [ label |-> label, ftm_id |-> row.id, schema |-> None,
                                             name |-> None, datasets |-> <<>>, modified_at |-> None ])
                  ELSE store.nodes
        bound == IF hit = {} THEN {Len(merged)} ELSE hit
    IN  [store EXCEPT !.nodes =
            [k \in DOMAIN merged |->
                IF k \in bound
                THEN [merged[k] EXCEPT !.schema = row.schema, !.name = row.name,
                                       !.datasets = row.datasets, !.modified_at = row.modified_at]
                ELSE merged[k]]]

RECURSIVE NODE_CYPHER(_, _, _)
NODE_CYPHER(store, label, batch) ==
    IF batch = <<>> THEN store
    ELSE NODE_CYPHER(MergeNode(store, label, Head(batch)), label, Tail(batch))

\* OPTIONAL MATCH (p:Person {ftm_id: id}) OPTIONAL MATCH (c:Company {ftm_id: id})
\* WITH coalesce(p, c): the element ids an endpoint identifier binds to
\* (one per matching Person, else one per matching Company, else none).
\* variant: MATCH (p:Person {ftm_id: id}) only
Resolve_mut_PersonOnly(store, id) ==
    {k \in DOMAIN store.nodes : store.nodes[k].label = "Person" /\ store.nodes[k].ftm_id = id}
\* variant: MATCH (n {ftm_id: id}) of any label, the oldest node first
Resolve_mut_CreationOrder(store, id) ==
    LET any == {k \in DOMAIN store.nodes : store.nodes[k].ftm_id = id}
    IN  IF any = {} THEN {} ELSE {CHOOSE k \in any : \A j \in any : k <= j}
Resolve(store, id) ==
    LET persons == {k \in DOMAIN store.nodes :
                       store.nodes[k].label = "Person" /\ store.nodes[k].ftm_id = id}
        companies == {k \in DOMAIN store.nodes :
                       store.nodes[k].label = "Company" /\ store.nodes[k].ftm_id = id}
    IN  IF persons # {} THEN persons ELSE companies

\* MERGE (src)-[r:<type> {ftm_id: row.id}]->(tgt) SET r.schema, r.datasets, ...
\* for one bound pair (src, tgt)
\* variant: CREATE (src)-[r]->(tgt) in place of MERGE
MergeRel_mut_Create(store, rel_type, row, src, tgt) ==
    [store EXCEPT !.edges = Append(@,
        [ type |-> rel_type, src |-> src, tgt |-> tgt, ftm_id |-> row.id, schema |-> row.schema,
          datasets |-> row.datasets, modified_at |-> row.modified_at ])]
MergeRel(store, rel_type, row, src, tgt) ==
    LET hit == {k \in DOMAIN store.edges :
                   /\ store.edges[k].type = rel_type
                   /\ store.edges[k].src = src
                   /\ store.edges[k].tgt = tgt
                   /\ store.edges[k].ftm_id = row.id}
        merged == IF hit = {}
                  THEN Append(store.edges, [ type |-> rel_type, src |-> src, tgt |-> tgt,
                                             ftm_id |-> row.id, schema |-> None,
                                             datasets |-> <<>>, modified_at |-> None ])
                  ELSE store.edges
        bound == IF hit = {} THEN {Len(merged)} ELSE hit
    IN  [store EXCEPT !.edges =
            [k \in DOMAIN merged |->
                IF k \in bound
                THEN [merged[k] EXCEPT !.schema = row.schema, !.datasets = row.datasets,
                                       !.modified_at = row.modified_at]
                ELSE merged[k]]]

RECURSIVE MergeRelPairs(_, _, _, _)
MergeRelPairs(store, rel_type, row, pairs) ==
    IF pairs = {} THEN store
    ELSE LET p == CHOOSE q \in pairs :
                    \A o \in pairs : q[1] < o[1] \/ (q[1] = o[1] /\ q[2] <= o[2])
         IN  MergeRelPairs(MergeRel(store, rel_type, row, p[1], p[2]), rel_type, row, pairs \ {p})

\* one row of REL_CYPHER: resolve, WHERE src IS NOT NULL AND tgt IS NOT NULL, MERGE
\* variant: without the WHERE clause, an unresolved endpoint staying null
RelRow_mut_NoWhere(store, rel_type, row) ==
    LET srcs == IF Resolve(store, row.source_id) = {} THEN {0} ELSE Resolve(store, row.source_id)
        tgts == IF Resolve(store, row.target_id) = {} THEN {0} ELSE Resolve(store, row.target_id)
    IN  MergeRelPairs(store, rel_type, row, srcs \X tgts)
RelRow(store, rel_type, row) ==
    MergeRelPairs(store, rel_type, row,
                  Resolve(store, row.source_id) \X Resolve(store, row.target_id))

\* variant: the batch stops at its first row with an unresolved endpoint
RECURSIVE REL_CYPHER_mut_StopAtDangling(_, _, _)
REL_CYPHER_mut_StopAtDangling(store, rel_type, batch) ==
    IF batch = <<>> THEN store
    ELSE IF Resolve(store, Head(batch).source_id) = {} \/ Resolve(store, Head(batch).target_id) = {}
    THEN store
    ELSE REL_CYPHER_mut_StopAtDangling(RelRow(store, rel_type, Head(batch)), rel_type, Tail(batch))
RECURSIVE REL_CYPHER(_, _, _)
REL_CYPHER(store, rel_type, batch) ==
    IF batch = <<>> THEN store
    ELSE REL_CYPHER(RelRow(store, rel_type, Head(batch)), rel_type, Tail(batch))


\* ------------------------------------------------------- batching writer
\* session.execute_write(_write) runs one transaction: it commits the whole
\* batch (ok) or raises and leaves the store as it was.  Each attempt is
\* recorded in flushes.
\* variant: the error is swallowed and the batch cleared all the same
flush_nodes_mut_ClearOnError(store, flushes, label, batch, ok) ==
    IF batch = <<>>
    THEN [store |-> store, flushes |-> flushes, batch |-> batch, raised |-> FALSE]
    ELSE [ store   |-> IF ok THEN NODE_CYPHER(store, label, batch) ELSE store,
           flushes |-> Append(flushes, [pass |-> "nodes", group |-> label, rows |-> batch, ok |-> ok]),
           batch   |-> <<>>,
           raised  |-> FALSE ]
flush_nodes(store, flushes, label, batch, ok) ==
    IF batch = <<>>
    THEN [store |-> store, flushes |-> flushes, batch |-> batch, raised |-> FALSE]
    ELSE [ store   |-> IF ok THEN NODE_CYPHER(store, label, batch) ELSE store,
           flushes |-> Append(flushes, [pass |-> "nodes", group |-> label, rows |-> batch, ok |-> ok]),
           batch   |-> IF ok THEN <<>> ELSE batch,
           raised  |-> ~ok ]

flush_rels(store, flushes, rel_type, batch, ok) ==
    IF batch = <<>>
    THEN [store |-> store, flushes |-> flushes, batch |-> batch, raised |-> FALSE]
    ELSE [ store   |-> IF ok THEN REL_CYPHER(store, rel_type, batch) ELSE store,
           flushes |-> Append(flushes, [pass |-> "rels", group |-> rel_type, rows |-> batch, ok |-> ok]),
           batch   |-> IF ok THEN <<>> ELSE batch,
           raised  |-> ~ok ]

\* len(batch) >= batch_size
\* variant: len(batch) > batch_size
BatchFull_mut_Greater(batch, size) == Len(batch) > size
BatchFull(batch, size) == Len(batch) >= size

\* The locals of import_nodes at its entry; s.store and s.flushes are the
\* session's view of the store and the record of its transactions.
import_nodes_enter(store, flushes) ==
    [ company_batch |-> <<>>, person_batch |-> <<>>, companies |-> 0, persons |-> 0,
      store |-> store, flushes |-> flushes, raised |-> FALSE ]

\* one iteration of the loop of import_nodes
\* variant: a Company or Person record is counted before its identifier is
\* looked at
import_nodes_body_mut_CountFirst(s, entity, size, ok) ==
    LET schema == Get(entity, "schema")
        row == to_node_row(entity)
    IN  IF schema \notin {"Company", "Person"} THEN s
        ELSE IF ~Truthy(row.id)
        THEN IF schema = "Company" THEN [s EXCEPT !.companies = @ + 1]
             ELSE [s EXCEPT !.persons = @ + 1]
        ELSE IF schema = "Company"
        THEN LET b == Append(s.company_batch, row)
                 f == IF BatchFull(b, size)
                      THEN flush_nodes(s.store, s.flushes, "Company", b, ok)
                      ELSE [store |-> s.store, flushes |-> s.flushes, batch |-> b, raised |-> FALSE]
             IN  [s EXCEPT !.company_batch = f.batch, !.companies = @ + 1,
                           !.store = f.store, !.flushes = f.flushes, !.raised = f.raised]
        ELSE LET b == Append(s.person_batch, row)
                 f == IF BatchFull(b, size)
                      THEN flush_nodes(s.store, s.flushes, "Person", b, ok)
                      ELSE [store |-> s.store, flushes |-> s.flushes, batch |-> b, raised |-> FALSE]
             IN  [s EXCEPT !.person_batch = f.batch, !.persons = @ + 1,
                           !.store = f.store, !.flushes = f.flushes, !.raised = f.raised]
import_nodes_body(s, entity, size, ok) ==
    LET schema == Get(entity, "schema")
        row == to_node_row(entity)
    IN  IF schema \notin {"Company", "Person"} THEN s
        ELSE IF ~Truthy(row.id) THEN s
        ELSE IF schema = "Company"
        THEN LET b == Append(s.company_batch, row)
                 f == IF BatchFull(b, size)
                      THEN flush_nodes(s.store, s.flushes, "Company", b, ok)
                      ELSE [store |-> s.store, flushes |-> s.flushes, batch |-> b, raised |-> FALSE]
             IN  [s EXCEPT !.company_batch = f.batch, !.companies = @ + 1,
                           !.store = f.store, !.flushes = f.flushes, !.raised = f.raised]
        ELSE LET b == Append(s.person_batch, row)
                 f == IF BatchFull(b, size)
                      THEN flush_nodes(s.store, s.flushes, "Person", b, ok)
                      ELSE [store |-> s.store, flushes |-> s.flushes, batch |-> b, raised |-> FALSE]
             IN  [s EXCEPT !.person_batch = f.batch, !.persons = @ + 1,
                           !.store = f.store, !.flushes = f.flushes, !.raised = f.raised]

\* the two flushes after the loop of import_nodes
\* variant: the Person group is not drained
import_nodes_drain_mut_CompanyOnly(s, okC, okP) ==
    LET f == flush_nodes(s.store, s.flushes, "Company", s.company_batch, okC)
    IN  [s EXCEPT !.company_batch = f.batch, !.store = f.store,
                  !.flushes = f.flushes, !.raised = f.raised]
import_nodes_drain(s, okC, okP) ==
    LET f == flush_nodes(s.store, s.flushes, "Company", s.company_batch, okC)
        g == flush_nodes(f.store, f.flushes, "Person", s.person_batch, okP)
    IN  IF f.raised
        THEN [s EXCEPT !.company_batch = f.batch, !.store = f.store,
                       !.flushes = f.flushes, !.raised = TRUE]
        ELSE [s EXCEPT !.company_batch = f.batch, !.person_batch = g.batch, !.store = g.store,
                       !.flushes = g.flushes, !.raised = g.raised]

import_relationships_enter(store, flushes) ==
    [ directorship_batch |-> <<>>, ownership_batch |-> <<>>, directorships |-> 0, ownerships |-> 0,
      store |-> store, flushes |-> flushes, raised |-> FALSE ]

\* variant: a row without identifier is grouped and counted like any other
import_relationships_body_mut_KeepNoId(s, entity, size, ok) ==
    LET schema == Get(entity, "schema")
        parsed == to_rel_row(entity)
    IN  IF schema \notin {"Directorship", "Ownership"} THEN s
        ELSE IF parsed = NoRow THEN s
        ELSE IF parsed.rel_type = "DIRECTORSHIP"
        THEN LET b == Append(s.directorship_batch, parsed.row)
                 f == IF BatchFull(b, size)
                      THEN flush_rels(s.store, s.flushes, "DIRECTORSHIP", b, ok)
                      ELSE [store |-> s.store, flushes |-> s.flushes, batch |-> b, raised |-> FALSE]
             IN  [s EXCEPT !.directorship_batch = f.batch, !.directorships = @ + 1,
                           !.store = f.store, !.flushes = f.flushes, !.raised = f.raised]
        ELSE LET b == Append(s.ownership_batch, parsed.row)
                 f == IF BatchFull(b, size)
                      THEN flush_rels(s.store, s.flushes, "OWNERSHIP", b, ok)
                      ELSE [store |-> s.store, flushes |-> s.flushes, batch |-> b, raised |-> FALSE]
             IN  [s EXCEPT !.ownership_batch = f.batch, !.ownerships = @ + 1,
                           !.store = f.store, !.flushes = f.flushes, !.raised = f.raised]
\* one iteration of the loop of import_relationships
import_relationships_body(s, entity, size, ok) ==
    LET schema == Get(entity, "schema")
        parsed == to_rel_row(entity)
    IN  IF schema \notin {"Directorship", "Ownership"} THEN s
        ELSE IF parsed = NoRow THEN s
        ELSE IF ~Truthy(parsed.row.id) THEN s
        ELSE IF parsed.rel_type = "DIRECTORSHIP"
        THEN LET b == Append(s.directorship_batch, parsed.row)
                 f == IF BatchFull(b, size)
                      THEN flush_rels(s.store, s.flushes, "DIRECTORSHIP", b, ok)
                      ELSE [store |-> s.store, flushes |-> s.flushes, batch |-> b, raised |-> FALSE]
             IN  [s EXCEPT !.directorship_batch = f.batch, !.directorships = @ + 1,
                           !.store = f.store, !.flushes = f.flushes, !.raised = f.raised]
        ELSE LET b == Append(s.ownership_batch, parsed.row)
                 f == IF BatchFull(b, size)
                      THEN flush_rels(s.store, s.flushes, "OWNERSHIP", b, ok)
                      ELSE [store |-> s.store, flushes |-> s.flushes, batch |-> b, raised |-> FALSE]
             IN  [s EXCEPT !.ownership_batch = f.batch, !.ownerships = @ + 1,
                           !.store = f.store, !.flushes = f.flushes, !.raised = f.raised]

\* the two flushes after the loop of import_relationships
import_relationships_drain(s, okD, okO) ==
    LET f == flush_rels(s.store, s.flushes, "DIRECTORSHIP", s.directorship_batch, okD)
        g == flush_rels(f.store, f.flushes, "OWNERSHIP", s.ownership_batch, okO)
    IN  IF f.raised
        THEN [s EXCEPT !.directorship_batch = f.batch, !.store = f.store,
                       !.flushes = f.flushes, !.raised = TRUE]
        ELSE [s EXCEPT !.directorship_batch = f.batch, !.ownership_batch = g.batch,
                       !.store = g.store, !.flushes = g.flushes, !.raised = g.raised]


\* ------------------------------------------------------------ the inputs
\* Records of an entities.ftm.json file, as iter_entities yields them.
E_Company ==
    [ id |-> "n1", schema |-> "Company", properties |-> [name |-> [list |-> <<"Acme">>]],
      datasets |-> <<"ds">>, modifiedAt |-> "t1" ]
\* the same Company again, without a name and with a later timestamp
E_CompanyAgain ==
    [ id |-> "n1", schema |-> "Company", properties |-> [country |-> [list |-> <<"de">>]],
      modified_at |-> "t2" ]
E_Person ==
    [ id |-> "n2", schema |-> "Person", properties |-> [name |-> [list |-> <<"Jane", "J.">>]] ]
\* a Person whose identifier is also a Company's
E_PersonSameId ==
    [ id |-> "n1", schema |-> "Person", properties |-> [name |-> [list |-> <<"Bob">>]] ]
\* a node record without identifier
E_CompanyNoId ==
    [ schema |-> "Company", properties |-> [name |-> [list |-> <<"Ghost">>]] ]
E_Directorship ==
    [ id |-> "e1", schema |-> "Directorship",
      properties |-> [director |-> [list |-> <<"n2">>], organization |-> [list |-> <<"n1">>]],
      modifiedAt |-> "t1" ]
\* the same edge identifier between other endpoints
E_DirectorshipOther ==
    [ id |-> "e1", schema |-> "Directorship",
      properties |-> [director |-> [list |-> <<"n1">>], organization |-> [list |-> <<"n2">>]] ]
\* an Ownership whose owner is a Company (here: of itself)
E_Ownership ==
    [ id |-> "e1", schema |-> "Ownership",
      properties |-> [owner |-> [list |-> <<"n1">>], asset |-> [list |-> <<"n1">>]],
      datasets |-> <<"ds">> ]
\* an edge whose target is no node record of any input
E_OwnershipDangling ==
    [ id |-> "e2", schema |-> "Ownership",
      properties |-> [owner |-> [list |-> <<"n1">>], asset |-> [list |-> <<"n3">>]] ]

Entities ==
    { E_Company, E_CompanyAgain, E_Person, E_PersonSameId, E_CompanyNoId,
      E_Directorship, E_Ownership, E_OwnershipDangling }

\* the records it takes to reuse an edge identifier between other endpoints
EdgeIdEntities == {E_Company, E_Person, E_Directorship, E_DirectorshipOther}

InputsOver(E, n) == UNION {[1..k -> E] : k \in 0..n}

BatchSizes == 1..MaxBatch

\* ------------------------------------------------------------- the state
VARIABLES
    input,              \* the records of the file at args.file
    batch_size,         \* args.batch_size
    run,                \* 1: the first invocation of main(), 2: its repetition
    pc,                 \* where main() is
    pos,                \* the next record of the pass's iter_entities
    indexes,            \* the indexes that exist and are online
    store,              \* the graph database
    store0,             \* the store as it was when this run began
    flushes,            \* the write transactions this run attempted
    company_batch, person_batch, companies, persons,
    directorship_batch, ownership_batch, directorships, ownerships,
    first               \* store and counts at the end of the first run

\* GraphRepository.get_company_graph (app/repositories/graph_repository.py)
VARIABLES
    company_id,         \* the root identifier the caller asks for
    result,             \* what the store holds for the traversal query
    graph_pc,           \* where get_company_graph is
    graph_reads,        \* the read transactions it has issued, and how they ended
    graph_rows,         \* the rows execute_read returned
    row_pos,            \* the next row of the loop
    nodes_by_id,        \* dict in insertion order: <<[id, name, type], ...>>
    links_set,          \* the (source, target, role) keys seen
    links,              \* <<[source, target, role], ...>>
    graph_out           \* what the caller has got: nothing yet, a view, an error

\* GraphRepository.search_companies
VARIABLES
    search_query,       \* the text the caller searches for
    search_limit,       \* the limit the caller gives
    search_pc,          \* where search_companies is
    search_reads,       \* the read transactions it has issued, and how they ended
    search_out          \* what the caller has got: nothing yet, rows, an error

\* iter_entities (ingest.py), a generator over the file at path
VARIABLES
    file,               \* the content of the file, piece by piece
    reader_pc,          \* where the generator is
    reader_mode,        \* ijson.items(f, "item") or ijson.items(f, "", multiple_values=True)
    reader_pos,         \* the parser's position in the file
    yielded             \* the entities it has yielded

\* the hr-ai-mock endpoint (app/routers/companies.py)
VARIABLES
    mock_data_cycle,    \* _mock_data_cycle, the module's itertools.cycle
    mock_responses      \* the requests served since process start, with their responses

\* import_data of the single-pass importer (ingest_toneo4jDB.py); its file,
\* batch size, position, store and company_batch are input, batch_size, pos,
\* store and company_batch
VARIABLES
    officer_batch,      \* the officer rows not yet flushed
    count               \* the entries imported

nodeLocals == <<company_batch, person_batch, companies, persons>>
relLocals == <<directorship_batch, ownership_batch, directorships, ownerships>>
ingestVars == <<input, batch_size, run, pc, pos, indexes, store, store0, flushes,
                nodeLocals, relLocals, first>>
graphLocals == <<graph_rows, row_pos, nodes_by_id, links_set, links>>
graphVars == <<company_id, result, graph_pc, graph_reads, graphLocals, graph_out>>
searchVars == <<search_query, search_limit, search_pc, search_reads, search_out>>
readerVars == <<file, reader_pc, reader_mode, reader_pos, yielded>>
mockVars == <<mock_data_cycle, mock_responses>>
legacyVars == <<officer_batch, count>>
vars == <<ingestVars, graphVars, searchVars, readerVars, mockVars, legacyVars>>
\* what an action of one component leaves alone
notIngest == <<graphVars, searchVars, readerVars, mockVars, legacyVars>>
notGraph == <<ingestVars, searchVars, readerVars, mockVars, legacyVars>>
notSearch == <<ingestVars, graphVars, readerVars, mockVars, legacyVars>>
notReader == <<ingestVars, graphVars, searchVars, mockVars, legacyVars>>
notMock == <<ingestVars, graphVars, searchVars, readerVars, legacyVars>>
notLegacy == <<graphVars, searchVars, readerVars, mockVars>>

\* no call of get_company_graph is under way
GraphIdle ==
    /\ company_id = None
    /\ result = <<>>
    /\ graph_pc = "idle"
    /\ graph_reads = <<>>
    /\ graph_rows = <<>> /\ row_pos = 1
    /\ nodes_by_id = <<>> /\ links_set = {} /\ links = <<>>
    /\ graph_out = [kind |-> "none"]

\* no call of search_companies is under way
SearchIdle ==
    /\ search_query = ""
    /\ search_limit = 0
    /\ search_pc = "idle"
    /\ search_reads = <<>>
    /\ search_out = [kind |-> "none"]

\* no generator of iter_entities is open
ReaderIdle ==
    /\ file = <<>>
    /\ reader_pc = "idle"
    /\ reader_mode = None
    /\ reader_pos = 1
    /\ yielded = <<>>

\* itertools.cycle(iterable): the items, and the position of the next one
cycle(items) == [items |-> items, k |-> 1]

\* the mock datasets of the module
ororatech_data == [company |-> "OroraTech GmbH"]
hochtief_data == [company |-> "HOCHTIEF AG"]

\* the module has been imported and no request to hr-ai-mock served
MockIdle ==
    /\ mock_data_cycle = cycle(<<ororatech_data, hochtief_data>>)
    /\ mock_responses = <<>>

\* no import_data of the single-pass importer is under way
LegacyIdle ==
    /\ officer_batch = <<>>
    /\ count = 0

Counts == <<companies, persons, directorships, ownerships>>

InitOver(inputs) ==
    /\ input \in inputs
    /\ batch_size \in BatchSizes
    /\ run = 1
    /\ pc = "ensure_indexes"
    /\ pos = 1
    /\ indexes = {}
    /\ store = EmptyStore
    /\ store0 = EmptyStore
    /\ flushes = <<>>
    /\ company_batch = <<>> /\ person_batch = <<>> /\ companies = 0 /\ persons = 0
    /\ directorship_batch = <<>> /\ ownership_batch = <<>>
    /\ directorships = 0 /\ ownerships = 0
    /\ first = [done |-> FALSE, store |-> EmptyStore, counts |-> <<0, 0, 0, 0>>]
    /\ GraphIdle
    /\ SearchIdle
    /\ ReaderIdle
    /\ MockIdle
    /\ LegacyIdle

\* main, [1/3] and the entry of [2/3]: ensure_indexes creates both indexes
\* and awaits them in one write transaction, or raises; then import_nodes
\* sets up its groups and counters and opens its session
\* variant: an error of ensure_indexes is swallowed and the node pass begins
EnsureIndexes_mut_SwallowError ==
    /\ pc = "ensure_indexes"
    /\ \E ok \in BOOLEAN :
          LET s == import_nodes_enter(store, flushes)
          IN  /\ indexes' = IF ok THEN indexes \cup {"person_ftm_id", "company_ftm_id"} ELSE indexes
              /\ company_batch' = s.company_batch
              /\ person_batch' = s.person_batch
              /\ companies' = s.companies
              /\ persons' = s.persons
              /\ pos' = 1
              /\ pc' = "import_nodes"
    /\ UNCHANGED <<input, batch_size, run, store, store0, flushes, relLocals, first>>
    /\ UNCHANGED notIngest
EnsureIndexes ==
    /\ pc = "ensure_indexes"
    /\ \E ok \in BOOLEAN :
          IF ok
          THEN LET s == import_nodes_enter(store, flushes)
               IN  /\ indexes' = indexes \cup {"person_ftm_id", "company_ftm_id"}
                   /\ company_batch' = s.company_batch
                   /\ person_batch' = s.person_batch
                   /\ companies' = s.companies
                   /\ persons' = s.persons
                   /\ pos' = 1
                   /\ pc' = "import_nodes"
          ELSE /\ indexes' = indexes
               /\ pc' = "failed"
               /\ UNCHANGED <<pos, nodeLocals>>
    /\ UNCHANGED <<input, batch_size, run, store, store0, flushes, relLocals, first>>
    /\ UNCHANGED notIngest

NodeState ==
    [ company_batch |-> company_batch, person_batch |-> person_batch,
      companies |-> companies, persons |-> persons,
      store |-> store, flushes |-> flushes, raised |-> FALSE ]

\* one record of the node pass
ImportNodesStep ==
    /\ pc = "import_nodes"
    /\ pos <= Len(input)
    /\ \E ok \in BOOLEAN :
          LET s == import_nodes_body(NodeState, input[pos], batch_size, ok)
          IN  /\ company_batch' = s.company_batch
              /\ person_batch' = s.person_batch
              /\ companies' = s.companies
              /\ persons' = s.persons
              /\ store' = s.store
              /\ flushes' = s.flushes
              /\ pc' = IF s.raised THEN "failed" ELSE "import_nodes"
    /\ pos' = pos + 1
    /\ UNCHANGED <<input, batch_size, run, indexes, store0, relLocals, first>>
    /\ UNCHANGED notIngest

\* end of the node pass: the final flushes and the return to main; then
\* [3/3], import_relationships sets up its groups and counters
ImportNodesReturn ==
    /\ pc = "import_nodes"
    /\ pos > Len(input)
    /\ \E okC, okP \in BOOLEAN :
          LET s == import_nodes_drain(NodeState, okC, okP)
              r == import_relationships_enter(s.store, s.flushes)
          IN  /\ company_batch' = s.company_batch
              /\ person_batch' = s.person_batch
              /\ store' = s.store
              /\ flushes' = s.flushes
              /\ IF s.raised
                 THEN /\ pc' = "failed"
                      /\ UNCHANGED <<pos, relLocals>>
                 ELSE /\ pc' = "import_relationships"
                      /\ pos' = 1
                      /\ directorship_batch' = r.directorship_batch
                      /\ ownership_batch' = r.ownership_batch
                      /\ directorships' = r.directorships
                      /\ ownerships' = r.ownerships
    /\ UNCHANGED <<input, batch_size, run, indexes, store0, companies, persons, first>>
    /\ UNCHANGED notIngest

RelState ==
    [ directorship_batch |-> directorship_batch, ownership_batch |-> ownership_batch,
      directorships |-> directorships, ownerships |-> ownerships,
      store |-> store, flushes |-> flushes, raised |-> FALSE ]

\* one record of the relationship pass
ImportRelationshipsStep ==
    /\ pc = "import_relationships"
    /\ pos <= Len(input)
    /\ \E ok \in BOOLEAN :
          LET s == import_relationships_body(RelState, input[pos], batch_size, ok)
          IN  /\ directorship_batch' = s.directorship_batch
              /\ ownership_batch' = s.ownership_batch
              /\ directorships' = s.directorships
              /\ ownerships' = s.ownerships
              /\ store' = s.store
              /\ flushes' = s.flushes
              /\ pc' = IF s.raised THEN "failed" ELSE "import_relationships"
    /\ pos' = pos + 1
    /\ UNCHANGED <<input, batch_size, run, indexes, store0, nodeLocals, first>>
    /\ UNCHANGED notIngest

\* end of the relationship pass: the final flushes, the return, main's end
ImportRelationshipsReturn ==
    /\ pc = "import_relationships"
    /\ pos > Len(input)
    /\ \E okD, okO \in BOOLEAN :
          LET s == import_relationships_drain(RelState, okD, okO)
          IN  /\ directorship_batch' = s.directorship_batch
              /\ ownership_batch' = s.ownership_batch
              /\ store' = s.store
              /\ flushes' = s.flushes
              /\ pc' = IF s.raised THEN "failed" ELSE "done"
    /\ UNCHANGED <<input, batch_size, run, pos, indexes, store0, directorships, ownerships,
                   nodeLocals, first>>
    /\ UNCHANGED notIngest

\* main() is invoked again on the same file against the same store
MainAgain ==
    /\ pc = "done"
    /\ run = 1
    /\ run' = 2
    /\ pc' = "ensure_indexes"
    /\ store0' = store
    /\ flushes' = <<>>
    /\ first' = [done |-> TRUE, store |-> store, counts |-> Counts]
    /\ UNCHANGED <<input, batch_size, pos, indexes, store, nodeLocals, relLocals>>
    /\ UNCHANGED notIngest

Next ==
    \/ EnsureIndexes
    \/ ImportNodesStep
    \/ ImportNodesReturn
    \/ ImportRelationshipsStep
    \/ ImportRelationshipsReturn
    \/ MainAgain

Init == InitOver(InputsOver(Entities, MaxLen))

Spec == Init /\ [][Next]_vars

\* the same program on the files of the edge-identifier scenario
InitEdgeIds == InitOver(InputsOver(EdgeIdEntities, MaxLenEdgeIds))

SpecEdgeIds == InitEdgeIds /\ [][Next]_vars

\* ------------------------------------------- the records the classifier sorts
\* a Company whose name is a scalar, not a list
E_CompanyScalarName ==
    [ id |-> "n1", schema |-> "Company", properties |-> [name |-> [scalar |-> "Acme"]] ]
\* a Person whose name list is empty
E_PersonEmptyName ==
    [ id |-> "n2", schema |-> "Person", properties |-> [name |-> [list |-> <<>>]] ]
\* a Person whose identifier is the empty string
E_PersonBlankId ==
    [ id |-> "", schema |-> "Person", properties |-> [name |-> [list |-> <<"Nemo">>]] ]
\* a record of a schema that is neither node nor edge
E_Address ==
    [ id |-> "a1", schema |-> "Address", properties |-> [name |-> [list |-> <<"Street">>]] ]
\* a record of another schema that has the properties of a Directorship
E_Membership ==
    [ id |-> "e4", schema |-> "Membership",
      properties |-> [director |-> [list |-> <<"n2">>], organization |-> [list |-> <<"n1">>]] ]
\* a Directorship without organization
E_DirectorshipNoOrganization ==
    [ id |-> "e3", schema |-> "Directorship", properties |-> [director |-> [list |-> <<"n2">>]] ]
\* an Ownership whose asset list is empty
E_OwnershipEmptyAsset ==
    [ id |-> "e5", schema |-> "Ownership",
      properties |-> [owner |-> [list |-> <<"n2">>], asset |-> [list |-> <<>>]] ]
\* an Ownership of a Company by a Person, with further values after the first
E_OwnershipByPerson ==
    [ id |-> "e6", schema |-> "Ownership",
      properties |-> [owner |-> [list |-> <<"n2", "n9">>], asset |-> [list |-> <<"n1", "n8">>]] ]
\* a Directorship whose director is a scalar, not a list
E_DirectorshipScalar ==
    [ id |-> "e7", schema |-> "Directorship",
      properties |-> [director |-> [scalar |-> "n2"], organization |-> [list |-> <<"n1">>]] ]
\* a Directorship with both endpoints and no identifier of its own
E_DirectorshipNoId ==
    [ schema |-> "Directorship",
      properties |-> [director |-> [list |-> <<"n2">>], organization |-> [list |-> <<"n1">>]] ]

ClassifierEntities ==
    { E_Company, E_Person, E_CompanyNoId, E_CompanyScalarName, E_PersonEmptyName, E_PersonBlankId,
      E_Address, E_Membership, E_Directorship, E_DirectorshipNoOrganization,
      E_OwnershipEmptyAsset, E_OwnershipByPerson, E_DirectorshipScalar, E_DirectorshipNoId }

\* the same program on files of these records
InitClassifier == InitOver(InputsOver(ClassifierEntities, MaxLenClassifier))

SpecClassifier == InitClassifier /\ [][Next]_vars


\* no run of main() is under way: the store as it is, one of stores with
\* one of the sets of indexes
IngestIdleOn(stores, indexSets) ==
    /\ input = <<>>
    /\ batch_size = 1
    /\ run = 1
    /\ pc = "idle"
    /\ pos = 1
    /\ indexes \in indexSets
    /\ store \in stores
    /\ store0 = store
    /\ flushes = <<>>
    /\ company_batch = <<>> /\ person_batch = <<>> /\ companies = 0 /\ persons = 0
    /\ directorship_batch = <<>> /\ ownership_batch = <<>>
    /\ directorships = 0 /\ ownerships = 0
    /\ first = [done |-> FALSE, store |-> EmptyStore, counts |-> <<0, 0, 0, 0>>]

IngestIdle == IngestIdleOn({EmptyStore}, {{}})

\* ---------------------------------------------------- subgraph assembler
\* role or None
OrNone(v) == IF Truthy(v) THEN v ELSE None

\* _add_node; nodes is nodes_by_id, its entries in insertion order
\* variant: a later non-empty name replaces the name already set
add_node_mut_Overwrite(nodes, node_id, name, node_type) ==
    IF ~Truthy(node_id) THEN nodes
    ELSE IF \E k \in DOMAIN nodes : nodes[k].id = node_id
    THEN [k \in DOMAIN nodes |->
             IF nodes[k].id = node_id /\ Truthy(name)
             THEN [nodes[k] EXCEPT !.name = name]
             ELSE nodes[k]]
    ELSE Append(nodes, [id |-> node_id, name |-> name, type |-> node_type])
\* variant: a node seen again takes the type of the later occurrence
add_node_mut_Retype(nodes, node_id, name, node_type) ==
    IF ~Truthy(node_id) THEN nodes
    ELSE IF \E k \in DOMAIN nodes : nodes[k].id = node_id
    THEN [k \in DOMAIN nodes |->
             IF nodes[k].id = node_id
             THEN [nodes[k] EXCEPT !.type = node_type,
                                   !.name = IF ~Truthy(@) /\ Truthy(name) THEN name ELSE @]
             ELSE nodes[k]]
    ELSE Append(nodes, [id |-> node_id, name |-> name, type |-> node_type])
add_node(nodes, node_id, name, node_type) ==
    IF ~Truthy(node_id) THEN nodes
    ELSE IF \E k \in DOMAIN nodes : nodes[k].id = node_id
    THEN [k \in DOMAIN nodes |->
             IF nodes[k].id = node_id /\ ~Truthy(Get(nodes[k], "name")) /\ Truthy(name)
             THEN [nodes[k] EXCEPT !.name = name]
             ELSE nodes[k]]
    ELSE Append(nodes, [id |-> node_id, name |-> name, type |-> node_type])

\* _add_link; s holds links_set and links
\* variant: key = (source, target, role)
add_link_mut_RawRole(s, source, target, role) ==
    IF ~Truthy(source) \/ ~Truthy(target) THEN s
    ELSE IF <<source, target, role>> \in s.links_set THEN s
    ELSE [s EXCEPT !.links_set = @ \cup {<<source, target, role>>},
                   !.links = Append(@, [source |-> source, target |-> target,
                                        role |-> OrNone(role)])]
\* variant: only the source is looked at
add_link_mut_SourceOnly(s, source, target, role) ==
    LET key == <<source, target, OrNone(role)>>
    IN  IF ~Truthy(source) THEN s
        ELSE IF key \in s.links_set THEN s
        ELSE [s EXCEPT !.links_set = @ \cup {key},
                       !.links = Append(@, [source |-> source, target |-> target,
                                            role |-> OrNone(role)])]
add_link(s, source, target, role) ==
    LET key == <<source, target, OrNone(role)>>
    IN  IF ~Truthy(source) \/ ~Truthy(target) THEN s
        ELSE IF key \in s.links_set THEN s
        ELSE [s EXCEPT !.links_set = @ \cup {key},
                       !.links = Append(@, [source |-> source, target |-> target,
                                            role |-> OrNone(role)])]

\* one iteration of the loop over rows
\* variant: the other company is not added as a node
get_company_graph_body_mut_NoOtherNode(s, row) ==
    LET n1 == add_node(s.nodes_by_id, Get(row, "root_id"), Get(row, "root_name"), "company")
        n2 == add_node(n1, Get(row, "person_id"), Get(row, "person_name"), "person")
        l1 == add_link(s, Get(row, "person_id"), Get(row, "root_id"), Get(row, "role_to_root"))
        l2 == add_link(l1, Get(row, "person_id"), Get(row, "other_company_id"),
                       Get(row, "role_to_other"))
    IN  [l2 EXCEPT !.nodes_by_id = n2]
get_company_graph_body(s, row) ==
    LET n1 == add_node(s.nodes_by_id, Get(row, "root_id"), Get(row, "root_name"), "company")
        n2 == add_node(n1, Get(row, "person_id"), Get(row, "person_name"), "person")
        n3 == add_node(n2, Get(row, "other_company_id"), Get(row, "other_company_name"), "company")
        l1 == add_link(s, Get(row, "person_id"), Get(row, "root_id"), Get(row, "role_to_root"))
        l2 == add_link(l1, Get(row, "person_id"), Get(row, "other_company_id"),
                       Get(row, "role_to_other"))
    IN  [l2 EXCEPT !.nodes_by_id = n3]

\* session.execute_read(_read): the rows of the store's answer, or an error
\* variant: an error of the read gives no rows
get_company_graph_read_mut_EmptyOnError(answer, ok) ==
    [raised |-> FALSE, rows |-> IF ok THEN answer ELSE <<>>]
get_company_graph_read(answer, ok) ==
    IF ok THEN [raised |-> FALSE, rows |-> answer] ELSE [raised |-> TRUE, rows |-> <<>>]

\* A row of the traversal query, as record.data() gives it.
QueryRow(root_id, root_name, person_id, person_name, other_id, other_name, role1, role2) ==
    [ root_id |-> root_id, root_name |-> root_name,
      person_id |-> person_id, person_name |-> person_name,
      other_company_id |-> other_id, other_company_name |-> other_name,
      role_to_root |-> role1, role_to_other |-> role2 ]

Q_Director == QueryRow("n1", "Acme", "n2", "Jane", None, None, None, None)
\* the same director through an edge whose role is the empty string
Q_DirectorBlankRole == QueryRow("n1", "Acme", "n2", "Jane", None, None, "", None)
Q_DirectorCeo == QueryRow("n1", "Acme", "n2", "Jane", None, None, "CEO", None)
\* root and director without names, and another company of the director
Q_Unnamed == QueryRow("n1", None, "n2", None, "n3", "Beta", "CFO", "")
\* a root without directors
Q_NoDirector == QueryRow("n1", "Acme", None, None, None, None, None, None)
\* other names for the same identifiers
Q_Renamed == QueryRow("n1", "Acme Ltd", "n2", "", "n3", None, "CEO", None)

\* a director whose identifier is the empty string, with roles and another company
Q_BlankPerson == QueryRow("n1", "Acme", "", "Ghost", "n3", "Beta", "CEO", "CEO")

\* a director that is a Person with the identifier of the root Company
Q_PersonIsRoot == QueryRow("n1", "Acme", "n1", "Bob", None, None, "CEO", None)
\* a director that is a Person with the identifier of its other Company
Q_PersonIsOther == QueryRow("n1", "Acme", "n3", "Eve", "n3", "Beta", None, "CEO")

QueryRows ==
    {Q_Director, Q_DirectorBlankRole, Q_DirectorCeo, Q_Unnamed, Q_NoDirector, Q_Renamed,
     Q_BlankPerson, Q_PersonIsRoot, Q_PersonIsOther}

GraphState == [nodes_by_id |-> nodes_by_id, links_set |-> links_set, links |-> links]

\* get_company_graph up to the loop: the read transaction, then the empty
\* dict, set and list
GetCompanyGraphRead ==
    /\ graph_pc = "read"
    /\ \E ok \in BOOLEAN :
          LET r == get_company_graph_read(result, ok)
          IN  /\ graph_reads' = Append(graph_reads, [id |-> company_id, ok |-> ok])
              /\ graph_rows' = r.rows
              /\ graph_pc' = IF r.raised THEN "raised" ELSE "loop"
              /\ graph_out' = IF r.raised THEN [kind |-> "error"] ELSE graph_out
    /\ row_pos' = 1
    /\ nodes_by_id' = <<>> /\ links_set' = {} /\ links' = <<>>
    /\ UNCHANGED <<company_id, result>>
    /\ UNCHANGED notGraph

\* for row in rows: one row
GetCompanyGraphRow ==
    /\ graph_pc = "loop"
    /\ row_pos <= Len(graph_rows)
    /\ LET s == get_company_graph_body(GraphState, graph_rows[row_pos])
       IN  /\ nodes_by_id' = s.nodes_by_id
           /\ links_set' = s.links_set
           /\ links' = s.links
    /\ row_pos' = row_pos + 1
    /\ UNCHANGED <<company_id, result, graph_pc, graph_reads, graph_rows, graph_out>>
    /\ UNCHANGED notGraph

\* return {"nodes": list(nodes_by_id.values()), "links": links}
GetCompanyGraphReturn ==
    /\ graph_pc = "loop"
    /\ row_pos > Len(graph_rows)
    /\ graph_out' = [kind |-> "view", nodes |-> nodes_by_id, links |-> links]
    /\ graph_pc' = "returned"
    /\ UNCHANGED <<company_id, result, graph_reads, graphLocals>>
    /\ UNCHANGED notGraph

\* get_company_graph is called on a store that answers the traversal query
\* with any rows
InitAssembler ==
    /\ IngestIdle
    /\ SearchIdle
    /\ ReaderIdle
    /\ MockIdle
    /\ LegacyIdle
    /\ company_id = "n1"
    /\ result \in InputsOver(QueryRows, MaxRows)
    /\ graph_pc = "read"
    /\ graph_reads = <<>>
    /\ graph_rows = <<>> /\ row_pos = 1
    /\ nodes_by_id = <<>> /\ links_set = {} /\ links = <<>>
    /\ graph_out = [kind |-> "none"]

NextAssembler ==
    \/ GetCompanyGraphRead
    \/ GetCompanyGraphRow
    \/ GetCompanyGraphReturn

SpecAssembler == InitAssembler /\ [][NextAssembler]_vars

\* ------------------------------------------- the traversal query on a store
NodesOf(st, label) == {k \in DOMAIN st.nodes : st.nodes[k].label = label}
EdgesOf(st, rel_type) == {k \in DOMAIN st.edges : st.edges[k].type = rel_type}

\* LIMIT 500 of the traversal query, at the scale of the stores of the model
QueryLimit == 4

\* property p of the node with element id k; null when k is no node (0)
NodeProp(st, k, p) == IF k \in DOMAIN st.nodes THEN Get(st.nodes[k], p) ELSE None
\* property p of the relationship with element id k; null when k is none (0)
RelProp(st, k, p) == IF k \in DOMAIN st.edges THEN Get(st.edges[k], p) ELSE None

\* MATCH (root:Company {ftm_id: $id})
\* OPTIONAL MATCH (p:Person)-[r1:DIRECTORSHIP]->(root)
\* OPTIONAL MATCH (p)-[r2:DIRECTORSHIP]->(c2:Company)
\*   WHERE c2 IS NULL OR c2.ftm_id <> root.ftm_id
\* the bindings <<root, p, r1, r2, c2>>, 0 for null
\* variant: both OPTIONAL MATCH clauses are plain MATCH clauses, so a root
\* without a director and a director without another company bind nothing
TraversalBindings_mut_Match(st, id) ==
    LET roots == {k \in NodesOf(st, "Company") : st.nodes[k].ftm_id = id}
        D == EdgesOf(st, "DIRECTORSHIP")
        First(root) ==
            {<<st.edges[r].src, r>> :
                r \in {e \in D : /\ st.edges[e].tgt = root
                                  /\ NodeProp(st, st.edges[e].src, "label") = "Person"}}
        Second(root, p) ==
            {<<r, st.edges[r].tgt>> :
                r \in {e \in D :
                         /\ st.edges[e].src = p
                         /\ NodeProp(st, st.edges[e].tgt, "label") = "Company"
                         /\ NodeProp(st, st.edges[e].tgt, "ftm_id") # st.nodes[root].ftm_id}}
    IN  UNION {UNION {{<<root, a[1], a[2], b[1], b[2]>> : b \in Second(root, a[1])} :
                      a \in First(root)} : root \in roots}
TraversalBindings(st, id) ==
    LET roots == {k \in NodesOf(st, "Company") : st.nodes[k].ftm_id = id}
        D == EdgesOf(st, "DIRECTORSHIP")
        First(root) ==
            LET m == {<<st.edges[r].src, r>> :
                         r \in {e \in D : /\ st.edges[e].tgt = root
                                           /\ NodeProp(st, st.edges[e].src, "label") = "Person"}}
            IN  IF m = {} THEN {<<0, 0>>} ELSE m
        Second(root, p) ==
            LET m == {<<r, st.edges[r].tgt>> :
                         r \in {e \in D :
                                  /\ p # 0 /\ st.edges[e].src = p
                                  /\ NodeProp(st, st.edges[e].tgt, "label") = "Company"
                                  /\ NodeProp(st, st.edges[e].tgt, "ftm_id") # None
                                  /\ NodeProp(st, st.edges[e].tgt, "ftm_id") # st.nodes[root].ftm_id}}
            IN  IF m = {} THEN {<<0, 0>>} ELSE m
    IN  UNION {UNION {{<<root, a[1], a[2], b[1], b[2]>> : b \in Second(root, a[1])} :
                      a \in First(root)} : root \in roots}

\* RETURN root.ftm_id AS root_id, ..., r2.role AS role_to_other
\* (a node of the store has an ftm_id, so coalesce(x.ftm_id, elementId(x))
\* is its ftm_id, and null for null)
TraversalRow(st, b) ==
    QueryRow(NodeProp(st, b[1], "ftm_id"), NodeProp(st, b[1], "name"),
             NodeProp(st, b[2], "ftm_id"), NodeProp(st, b[2], "name"),
             NodeProp(st, b[5], "ftm_id"), NodeProp(st, b[5], "name"),
             RelProp(st, b[3], "role"), RelProp(st, b[4], "role"))

\* the sequences of rows the query may return: its rows in any order (the
\* query has no ORDER BY), cut at the limit
\* variant: the query without its LIMIT
TraversalAnswers_mut_NoLimit(st, id) ==
    LET B == TraversalBindings(st, id)
        n == Cardinality(B)
    IN  {[k \in 1..n |-> TraversalRow(st, f[k])] :
            f \in {g \in [1..n -> B] : \A i, j \in 1..n : g[i] = g[j] => i = j}}
TraversalAnswers(st, id) ==
    LET B == TraversalBindings(st, id)
        n == Cardinality(B)
        m == IF n <= QueryLimit THEN n ELSE QueryLimit
    IN  {[k \in 1..m |-> TraversalRow(st, f[k])] :
            f \in {g \in [1..n -> B] : \A i, j \in 1..n : g[i] = g[j] => i = j}}

\* get_company_graph is called, with a store that ingestion has filled
GetCompanyGraphCall ==
    /\ pc = "done"
    /\ graph_pc = "idle"
    /\ \E id \in {"n1", "n2"} :
          /\ company_id' = id
          /\ result' \in TraversalAnswers(store, id)
    /\ graph_pc' = "read"
    /\ UNCHANGED <<graph_reads, graphLocals, graph_out>>
    /\ UNCHANGED notGraph

\* the scenario: a Company, its director and the Directorship, in any order
InitScenario ==
    InitOver({[k \in 1..3 |-> <<E_Company, E_Person, E_Directorship>>[pi[k]]] :
                 pi \in Permutations(1..3)})

NextScenario ==
    \/ EnsureIndexes
    \/ ImportNodesStep
    \/ ImportNodesReturn
    \/ ImportRelationshipsStep
    \/ ImportRelationshipsReturn
    \/ GetCompanyGraphCall
    \/ GetCompanyGraphRead
    \/ GetCompanyGraphRow
    \/ GetCompanyGraphReturn

SpecScenario == InitScenario /\ [][NextScenario]_vars

\* ----------------------------------------------------------------- search
\* The characters of the strings that are searched for or searched in.
Chars(str) ==
    CASE str = "" -> <<>>
      [] str = "ac" -> <<"a", "c">>
      [] str = "ME" -> <<"M", "E">>
      [] str = "zz" -> <<"z", "z">>
      [] str = "Acme" -> <<"A", "c", "m", "e">>
      [] str = "ACE" -> <<"A", "C", "E">>
      [] str = "Jane" -> <<"J", "a", "n", "e">>

LowerChar(c) ==
    CASE c = "A" -> "a" [] c = "C" -> "c" [] c = "E" -> "e" [] c = "J" -> "j" [] c = "M" -> "m"
      [] OTHER -> c

\* toLower(chars)
toLower(chars) == [k \in DOMAIN chars |-> LowerChar(chars[k])]

\* a CONTAINS b
Contains(a, b) == \E k \in 0..(Len(a) - Len(b)) : SubSeq(a, k + 1, k + Len(b)) = b

\* the parameters of tx.run in _read_fulltext: q = f"{query}*"
read_fulltext(query, limit) ==
    [cypher |-> "fulltext", q |-> [text |-> query, star |-> TRUE], limit |-> limit]

\* the parameters of tx.run in _read_fallback: q = query
\* variant: q = f"{query}*" here too
read_fallback_mut_PrefixText(query, limit) ==
    [cypher |-> "fallback", q |-> [text |-> query, star |-> TRUE], limit |-> limit]
read_fallback(query, limit) ==
    [cypher |-> "fallback", q |-> [text |-> query, star |-> FALSE], limit |-> limit]

\* the sequences of at most limit different members of S, in any order
UpTo(S, limit) ==
    UNION {{f \in [1..n -> S] : \A i, j \in 1..n : f[i] = f[j] => i = j} :
              n \in 0..(IF Cardinality(S) <= limit THEN Cardinality(S) ELSE limit)}

\* the sequences of exactly min(limit, |S|) different members of S
Limited(S, limit) ==
    {f \in UpTo(S, limit) : Len(f) = IF Cardinality(S) <= limit THEN Cardinality(S) ELSE limit}

\* MATCH (c:Company) WHERE toLower(c.name) CONTAINS toLower($q)
FallbackMatches(st, q) ==
    {k \in NodesOf(st, "Company") :
        /\ st.nodes[k].name # None
        /\ Contains(toLower(Chars(st.nodes[k].name)),
                    toLower(Chars(q.text) \o (IF q.star THEN <<"*">> ELSE <<>>)))}

\* RETURN c.ftm_id AS id, c.name AS name, 0.0 AS score LIMIT $limit
FallbackAnswers(st, q, limit) ==
    {[k \in DOMAIN f |-> [id |-> st.nodes[f[k]].ftm_id, name |-> st.nodes[f[k]].name, score |-> 0]] :
        f \in Limited(FallbackMatches(st, q), limit)}

\* CALL db.index.fulltext.queryNodes("companyNameIndex", $q) ... LIMIT $limit:
\* what the index holds and how it analyses names is not this program's;
\* the answer is some named nodes of the store, each with a score
FulltextAnswers(st, limit) ==
    {[k \in DOMAIN f |-> [id |-> st.nodes[f[k]].ftm_id, name |-> st.nodes[f[k]].name, score |-> 1]] :
        f \in UpTo({n \in DOMAIN st.nodes : st.nodes[n].name # None}, limit)}

\* session.execute_read on the store: the rows, an error the store reports
\* for the query (Neo4jError: always so when the fulltext index is absent),
\* or an error of the connection (ServiceUnavailable: no Neo4jError)
Execute(st, ix, read) ==
    LET answers == IF read.cypher = "fallback" THEN FallbackAnswers(st, read.q, read.limit)
                   ELSE IF "companyNameIndex" \in ix THEN FulltextAnswers(st, read.limit)
                   ELSE {}
    IN  {[kind |-> "rows", rows |-> a] : a \in answers}
        \cup {[kind |-> "Neo4jError", rows |-> <<>>], [kind |-> "DriverError", rows |-> <<>>]}

\* try: return session.execute_read(_read_fulltext) / except Neo4jError:
\* variant: an empty result goes to the fallback as well
search_companies_try_mut_FallbackOnEmpty(outcome) ==
    IF outcome.kind = "rows" /\ outcome.rows # <<>>
    THEN [pc |-> "returned", out |-> [kind |-> "rows", rows |-> outcome.rows]]
    ELSE IF outcome.kind \in {"rows", "Neo4jError"} THEN [pc |-> "except", out |-> [kind |-> "none"]]
    ELSE [pc |-> "raised", out |-> [kind |-> "error", error |-> outcome.kind]]
search_companies_try(outcome) ==
    IF outcome.kind = "rows" THEN [pc |-> "returned", out |-> [kind |-> "rows", rows |-> outcome.rows]]
    ELSE IF outcome.kind = "Neo4jError" THEN [pc |-> "except", out |-> [kind |-> "none"]]
    ELSE [pc |-> "raised", out |-> [kind |-> "error", error |-> outcome.kind]]

\* return session.execute_read(_read_fallback)
search_companies_except(outcome) ==
    IF outcome.kind = "rows" THEN [pc |-> "returned", out |-> [kind |-> "rows", rows |-> outcome.rows]]
    ELSE [pc |-> "raised", out |-> [kind |-> "error", error |-> outcome.kind]]

\* search_companies, the try block
SearchTry ==
    /\ search_pc = "try"
    /\ LET read == read_fulltext(search_query, search_limit)
       IN  \E outcome \in Execute(store, indexes, read) :
               LET s == search_companies_try(outcome)
               IN  /\ search_reads' = Append(search_reads, [read |-> read, outcome |-> outcome])
                   /\ search_pc' = s.pc
                   /\ search_out' = s.out
    /\ UNCHANGED <<search_query, search_limit>>
    /\ UNCHANGED notSearch

\* search_companies, the except block
SearchExcept ==
    /\ search_pc = "except"
    /\ LET read == read_fallback(search_query, search_limit)
       IN  \E outcome \in Execute(store, indexes, read) :
               LET s == search_companies_except(outcome)
               IN  /\ search_reads' = Append(search_reads, [read |-> read, outcome |-> outcome])
                   /\ search_pc' = s.pc
                   /\ search_out' = s.out
    /\ UNCHANGED <<search_query, search_limit>>
    /\ UNCHANGED notSearch

\* a Company with another name
E_CompanyAce ==
    [ id |-> "n3", schema |-> "Company", properties |-> [name |-> [list |-> <<"ACE">>]] ]

\* the stores that are searched: what a node flush makes of some Company
\* records
SearchStores ==
    {NODE_CYPHER(EmptyStore, "Company", [k \in DOMAIN inp |-> to_node_row(inp[k])]) :
        inp \in InputsOver({E_Company, E_CompanyAgain, E_CompanyAce}, MaxCompanies)}

SearchTexts == {"", "ac", "ME", "zz"}

\* search_companies is called, on a store with or without the fulltext index
InitSearch ==
    /\ IngestIdleOn(SearchStores, {{}, {"companyNameIndex"}})
    /\ GraphIdle
    /\ ReaderIdle
    /\ MockIdle
    /\ LegacyIdle
    /\ search_query \in SearchTexts
    /\ search_limit \in 0..MaxLimit
    /\ search_pc = "try"
    /\ search_reads = <<>>
    /\ search_out = [kind |-> "none"]

NextSearch ==
    \/ SearchTry
    \/ SearchExcept

SpecSearch == InitSearch /\ [][NextSearch]_vars

\* ----------------------------------------------------------------- reader
\* A file is a sequence of pieces: one whitespace byte (ws), one byte "["
\* (open), "]" (close) or "," (comma), the bytes of a complete JSON object
\* (obj, with the dict it decodes to), the bytes of a complete value that is
\* neither object nor array (num), or bytes that are no JSON, such as an
\* object cut short (junk).
Piece(t) == [t |-> t]
ObjPiece(entity) == [t |-> "obj", v |-> entity]

\* peek_bytes of _first_non_ws_byte (4096 in the source), at the scale of
\* the files of the model
peek_bytes == 2

\* _first_non_ws_byte: the first byte in the first peek_bytes bytes that is
\* not white space, or None; the pieces before it are one byte each
first_non_ws_byte(f) ==
    LET nonws == {k \in DOMAIN f : k <= peek_bytes /\ f[k].t # "ws"}
    IN  IF nonws = {} THEN None
        ELSE LET p == f[CHOOSE k \in nonws : \A j \in nonws : k <= j]
             IN  CASE p.t = "open" -> "[" [] p.t = "close" -> "]" [] p.t = "comma" -> ","
                   [] p.t = "obj" -> "{" [] p.t = "num" -> "1" [] p.t = "junk" -> "{"

\* the parser skips white space between values
RECURSIVE SkipWs(_, _)
SkipWs(f, k) == IF k <= Len(f) /\ f[k].t = "ws" THEN SkipWs(f, k + 1) ELSE k

\* ijson parses one JSON value that starts at or after piece k:
\* [ok, next, dict, v]; ok is FALSE where the bytes are no value (eof FALSE)
\* or the file ends before the value does (eof TRUE)
RECURSIVE ParseValue(_, _)
RECURSIVE ParseElements(_, _)
ParseValue(f, k) ==
    LET j == SkipWs(f, k)
    IN  IF j > Len(f) THEN [ok |-> FALSE, eof |-> TRUE]
        ELSE IF f[j].t = "obj" THEN [ok |-> TRUE, next |-> j + 1, dict |-> TRUE, v |-> f[j].v]
        ELSE IF f[j].t = "num" THEN [ok |-> TRUE, next |-> j + 1, dict |-> FALSE]
        ELSE IF f[j].t = "open"
        THEN LET i == SkipWs(f, j + 1)
             IN  IF i <= Len(f) /\ f[i].t = "close"
                 THEN [ok |-> TRUE, next |-> i + 1, dict |-> FALSE]
                 ELSE ParseElements(f, j + 1)
        ELSE [ok |-> FALSE, eof |-> FALSE]
\* the elements of an array from piece k on, up to its "]"
ParseElements(f, k) ==
    LET e == ParseValue(f, k)
        j == IF e.ok THEN SkipWs(f, e.next) ELSE 0
    IN  IF ~e.ok THEN e
        ELSE IF j > Len(f) THEN [ok |-> FALSE, eof |-> TRUE]
        ELSE IF f[j].t = "close" THEN [ok |-> TRUE, next |-> j + 1, dict |-> FALSE]
        ELSE IF f[j].t = "comma" THEN ParseElements(f, j + 1)
        ELSE [ok |-> FALSE, eof |-> FALSE]

\* the parser's errors: bytes that are no JSON here, or the end of the
\* file inside a value
Invalid == [kind |-> "error", eof |-> FALSE]
Incomplete == [kind |-> "error", eof |-> TRUE]
ItemOr(e) == IF e.ok THEN [kind |-> "item", value |-> e] ELSE [kind |-> "error", eof |-> e.eof]

\* after the top-level value of a file that holds one value: white space only
AtEnd(f, k) == IF SkipWs(f, k) > Len(f) THEN [kind |-> "end"] ELSE Invalid

\* ijson.items(f, "item"): the next element of the top-level array, the end
\* of the document, or an error; started: the "[" has been read
items_item(f, started, k) ==
    LET j == SkipWs(f, k)
    IN  IF j > Len(f) THEN Incomplete
        ELSE IF ~started
        THEN LET i == SkipWs(f, j + 1)
             IN  IF f[j].t # "open" THEN Invalid
                 ELSE IF i <= Len(f) /\ f[i].t = "close" THEN AtEnd(f, i + 1)
                 ELSE ItemOr(ParseValue(f, j + 1))
        ELSE IF f[j].t = "close" THEN AtEnd(f, j + 1)
        ELSE IF f[j].t = "comma" THEN ItemOr(ParseValue(f, j + 1))
        ELSE Invalid

\* ijson.items(f, "", multiple_values=True): the next top-level value, the
\* end of the file, or an error
items_multiple(f, k) ==
    IF SkipWs(f, k) > Len(f) THEN [kind |-> "end"] ELSE ItemOr(ParseValue(f, k))

\* for entity in ijson.items(...): if isinstance(entity, dict): yield entity
\* up to the next yield, the end of the loop, or the error
\* variant: the loop ends at the first item that is no dict
iter_entities_next_mut_StopAtNonDict(f, mode, started, k) ==
    LET r == IF mode = "array" THEN items_item(f, started, k) ELSE items_multiple(f, k)
    IN  IF r.kind = "item" /\ ~r.value.dict THEN [kind |-> "end"]
        ELSE r
RECURSIVE iter_entities_next(_, _, _, _)
iter_entities_next(f, mode, started, k) ==
    LET r == IF mode = "array" THEN items_item(f, started, k) ELSE items_multiple(f, k)
    IN  IF r.kind = "item" /\ ~r.value.dict THEN iter_entities_next(f, mode, TRUE, r.value.next)
        ELSE r

\* bytes that are no JSON lie ahead of position k
RECURSIVE InvalidAhead(_, _, _, _)
InvalidAhead(f, mode, started, k) ==
    LET r == iter_entities_next(f, mode, started, k)
    IN  IF r.kind = "item" THEN InvalidAhead(f, mode, TRUE, r.value.next) ELSE r = Invalid

\* iter_entities up to the loops: the peek and the choice of the parser
iter_entities_enter(f) ==
    LET first_ == first_non_ws_byte(f)
    IN  IF first_ = None THEN [pc |-> "ended", mode |-> None]
        ELSE IF first_ = "[" THEN [pc |-> "running", mode |-> "array"]
        ELSE [pc |-> "running", mode |-> "multiple"]

\* the generator is started: lines 28 to 33
ReaderEnter ==
    /\ reader_pc = "created"
    /\ LET s == iter_entities_enter(file)
       IN  /\ reader_pc' = s.pc
           /\ reader_mode' = s.mode
    /\ UNCHANGED <<file, reader_pos, yielded>>
    /\ UNCHANGED notReader

\* the generator runs to its next yield, to its end, or to the parser's
\* error.  ijson parses the file buffer by buffer and hands out the items of
\* a buffer when the buffer is done, so that bytes that are no JSON raise
\* before the items that precede them in their buffer are yielded: early.
ReaderNext ==
    /\ reader_pc = "running"
    /\ \E early \in BOOLEAN :
          LET r == iter_entities_next(file, reader_mode, reader_pos > 1, reader_pos)
          IN  IF r.kind = "error" \/ (early /\ InvalidAhead(file, reader_mode, reader_pos > 1, reader_pos))
              THEN reader_pc' = "raised" /\ UNCHANGED <<reader_pos, yielded>>
              ELSE IF r.kind = "end"
              THEN reader_pc' = "ended" /\ UNCHANGED <<reader_pos, yielded>>
              ELSE /\ reader_pc' = "running"
                   /\ reader_pos' = r.value.next
                   /\ yielded' = Append(yielded, r.value.v)
    /\ UNCHANGED <<file, reader_mode>>
    /\ UNCHANGED notReader

Pieces ==
    { Piece("ws"), Piece("open"), Piece("close"), Piece("comma"), Piece("num"), Piece("junk"),
      ObjPiece(E_Company), ObjPiece(E_Person) }

\* iter_entities is called on any file
InitReader ==
    /\ IngestIdle
    /\ GraphIdle
    /\ SearchIdle
    /\ MockIdle
    /\ LegacyIdle
    /\ file \in InputsOver(Pieces, MaxPieces)
    /\ reader_pc = "created"
    /\ reader_mode = None
    /\ reader_pos = 1
    /\ yielded = <<>>

NextReader ==
    \/ ReaderEnter
    \/ ReaderNext

SpecReader == InitReader /\ [][NextReader]_vars

\* ----------------------------------------------------- views of the state
Bag(seq) == [x \in Range(seq) |-> Cardinality({k \in DOMAIN seq : seq[k] = x})]

\* (label, identifier) of the node with element id k
KeyOf(st, k) ==
    IF k \in DOMAIN st.nodes THEN <<st.nodes[k].label, st.nodes[k].ftm_id>> ELSE <<None, None>>

\* The graph a store holds, up to element ids: its nodes with their
\* attributes, its edges with theirs and with the keys of their endpoints,
\* each with its multiplicity.
GraphOf(st) ==
    [ nodes |-> Bag(st.nodes),
      edges |-> Bag([k \in DOMAIN st.edges |->
                        [ type |-> st.edges[k].type, ftm_id |-> st.edges[k].ftm_id,
                          src |-> KeyOf(st, st.edges[k].src), tgt |-> KeyOf(st, st.edges[k].tgt),
                          schema |-> st.edges[k].schema, datasets |-> st.edges[k].datasets,
                          modified_at |-> st.edges[k].modified_at ]]) ]


RECURSIVE Concat(_)
Concat(seqs) == IF seqs = <<>> THEN <<>> ELSE Head(seqs) \o Concat(Tail(seqs))

\* the rows this run submitted for one group, flush after flush
Submitted(pass, group) ==
    Concat([k \in DOMAIN flushes |->
              IF flushes[k].pass = pass /\ flushes[k].group = group
              THEN flushes[k].rows ELSE <<>>])

IsNodeFlush(f) == f.pass = "nodes"
IsRelFlush(f) == f.pass = "rels"

\* the store after the committed ones of the given transactions
RECURSIVE Replay(_, _)
Replay(st, fl) ==
    IF fl = <<>> THEN st
    ELSE LET f == Head(fl)
         IN  Replay(IF ~f.ok THEN st
                    ELSE IF IsNodeFlush(f) THEN NODE_CYPHER(st, f.group, f.rows)
                    ELSE REL_CYPHER(st, f.group, f.rows),
                    Tail(fl))

\* the rows the passes accept from the input, per group, in input order
RECURSIVE MapSeq(_, _)
MapSeq(Op(_), seq) == IF seq = <<>> THEN <<>> ELSE <<Op(Head(seq))>> \o MapSeq(Op, Tail(seq))

IsNodeRecord(e, label) == Get(e, "schema") = label /\ Truthy(Get(e, "id"))
IsRelRecord(e, rel_type) ==
    /\ to_rel_row(e) # NoRow
    /\ to_rel_row(e).rel_type = rel_type
    /\ Truthy(Get(e, "id"))
RelRowOf(e) == to_rel_row(e).row

AcceptedNodes(inp, label) ==
    LET Is(e) == IsNodeRecord(e, label) IN MapSeq(to_node_row, SelectSeq(inp, Is))
AcceptedRels(inp, rel_type) ==
    LET Is(e) == IsRelRecord(e, rel_type) IN MapSeq(RelRowOf, SelectSeq(inp, Is))

\* the identifiers that appear on node records of the input
NodeIds(inp) ==
    {Get(inp[k], "id") : k \in {j \in DOMAIN inp : IsNodeRecord(inp[j], "Company")
                                                     \/ IsNodeRecord(inp[j], "Person")}}

\* ---------------------------------------------------------------- claims

\* C1  Idempotence of ingestion: when a second run of main() on the same
\* input against the same store has completed, the store holds the same
\* graph (nodes, edges, attribute values, multiplicities) as after the first
\* run, and the run reports the same four counts.
C1_Idempotent ==
    (run = 2 /\ pc = "done") =>
        /\ first.done
        /\ GraphOf(store) = GraphOf(first.store)
        /\ Counts = first.counts

\* a second run has completed on a store that holds nodes and an edge
C1_Witness ==
    /\ run = 2 /\ pc = "done"
    /\ Len(store.nodes) >= 2 /\ Len(store.edges) >= 1
    /\ companies >= 1 /\ directorships >= 1

\* ------------------------------------------- main() as one run, no errors
RECURSIVE NodePass(_, _, _, _)
NodePass(s, inp, k, size) ==
    IF k > Len(inp) THEN s
    ELSE NodePass(import_nodes_body(s, inp[k], size, TRUE), inp, k + 1, size)

RECURSIVE RelPass(_, _, _, _)
RelPass(s, inp, k, size) ==
    IF k > Len(inp) THEN s
    ELSE RelPass(import_relationships_body(s, inp[k], size, TRUE), inp, k + 1, size)

\* import_nodes then import_relationships on inp against st, every
\* transaction committing: the final store and the four counts
Ingest(inp, size, st) ==
    LET n == import_nodes_drain(NodePass(import_nodes_enter(st, <<>>), inp, 1, size), TRUE, TRUE)
        r == import_relationships_drain(
                 RelPass(import_relationships_enter(n.store, n.flushes), inp, 1, size), TRUE, TRUE)
    IN  [store |-> r.store, counts |-> <<n.companies, n.persons, r.directorships, r.ownerships>>]

\* inp with its records rearranged by pi
Permuted(inp, pi) == [k \in DOMAIN inp |-> inp[pi[k]]]

\* every edge record's endpoints appear as node records of inp
EndpointsPresent(inp) ==
    \A k \in DOMAIN inp :
        to_rel_row(inp[k]) # NoRow =>
            /\ to_rel_row(inp[k]).row.source_id \in NodeIds(inp)
            /\ to_rel_row(inp[k]).row.target_id \in NodeIds(inp)

\* kind (or edge type) and identifier of a record
RecordKey(e) == <<Get(e, "schema"), Get(e, "id")>>

\* pi keeps the relative order of the records of inp that share a key
KeepsKeyOrder(inp, pi) ==
    \A a, b \in DOMAIN inp :
        (a < b /\ RecordKey(inp[pi[a]]) = RecordKey(inp[pi[b]])) => pi[a] < pi[b]

\* C2 as claimed  Order-independence: every permutation of an input whose
\* edges' endpoints all appear as node records ingests, into an empty store,
\* to the same graph as the input itself.
C2_AnyPermutation ==
    (run = 1 /\ pc = "done" /\ EndpointsPresent(input)) =>
        \A pi \in Permutations(DOMAIN input) :
            GraphOf(Ingest(Permuted(input, pi), batch_size, EmptyStore).store) = GraphOf(store)

\* C2 as amended  Order-independence: every permutation of such an input
\* that keeps the relative order of the records sharing kind (or edge type)
\* and identifier ingests, into an empty store, to the same graph as the
\* input itself (which is the graph the run of main() ended in).
C2_KeyOrderPermutation ==
    (run = 1 /\ pc = "done" /\ EndpointsPresent(input)) =>
        /\ store = Ingest(input, batch_size, EmptyStore).store
        /\ \A pi \in Permutations(DOMAIN input) :
              KeepsKeyOrder(input, pi) =>
                  GraphOf(Ingest(Permuted(input, pi), batch_size, EmptyStore).store) = GraphOf(store)

\* a run ended with an edge although the edge record came first in the
\* file, before both node records it refers to
C2_Witness ==
    /\ run = 1 /\ pc = "done" /\ EndpointsPresent(input)
    /\ Len(input) = 3
    /\ Get(input[1], "schema") = "Directorship"
    /\ Get(input[2], "schema") # Get(input[3], "schema")
    /\ Len(store.edges) = 1

\* C3  Edge identifier uniqueness: the store never holds two edges of one
\* type with the same identifier.
C3_EdgeIdUnique ==
    \A j, k \in DOMAIN store.edges :
        (store.edges[j].type = store.edges[k].type /\ store.edges[j].ftm_id = store.edges[k].ftm_id)
            => j = k

\* the rows of a batch whose endpoints both appear as node records of inp
Resolvable(inp, rows) ==
    LET Is(r) == r.source_id \in NodeIds(inp) /\ r.target_id \in NodeIds(inp)
    IN  SelectSeq(rows, Is)

\* the transactions with the dangling rows taken out of the edge batches
WithoutDangling(inp, fl) ==
    [k \in DOMAIN fl |->
        IF IsRelFlush(fl[k]) THEN [fl[k] EXCEPT !.rows = Resolvable(inp, @)] ELSE fl[k]]

\* C4  Dangling-edge drop: the store is at every moment the store that the
\* run's committed flushes produce with the dangling rows (an endpoint that
\* is no node record of the input) removed from their batches: a dangling
\* row creates no edge and changes nothing about the other rows of its
\* batch; and no edge ends at an identifier that is no node record.
C4_DanglingDropped ==
    /\ store = Replay(store0, WithoutDangling(input, flushes))
    /\ \A k \in DOMAIN store.edges :
          /\ KeyOf(store, store.edges[k].src)[2] \in NodeIds(input)
          /\ KeyOf(store, store.edges[k].tgt)[2] \in NodeIds(input)

\* a committed flush carried a dangling row before a row whose endpoints
\* resolve, and the latter's edge is in the store
C4_Witness ==
    /\ run = 1
    /\ \E k \in DOMAIN flushes :
          /\ IsRelFlush(flushes[k]) /\ flushes[k].ok
          /\ Len(flushes[k].rows) = 2
          /\ flushes[k].rows[1].target_id \notin NodeIds(input)
          /\ Resolvable(input, flushes[k].rows) = <<flushes[k].rows[2]>>
    /\ Len(store.edges) = 1
    /\ pc = "done"


\* C5  Two-pass ordering: within a run no node flush follows an edge flush,
\* and once an edge flush has been issued both node groups are empty and
\* every node row the input yields has been committed, in order.
C5_NodesBeforeEdges ==
    /\ \A j, k \in DOMAIN flushes :
          (j < k /\ IsRelFlush(flushes[j])) => IsRelFlush(flushes[k])
    /\ (\E k \in DOMAIN flushes : IsRelFlush(flushes[k])) =>
          /\ company_batch = <<>> /\ person_batch = <<>>
          /\ \A k \in DOMAIN flushes : IsNodeFlush(flushes[k]) => flushes[k].ok
          /\ Submitted("nodes", "Company") = AcceptedNodes(input, "Company")
          /\ Submitted("nodes", "Person") = AcceptedNodes(input, "Person")

\* an edge flush was issued after a Person flush that the final drain of
\* the node pass made (the Person group never reached the batch size)
C5_Witness ==
    /\ batch_size = 2
    /\ Len(flushes) = 2
    /\ IsNodeFlush(flushes[1]) /\ flushes[1].group = "Person" /\ Len(flushes[1].rows) = 1
    /\ IsRelFlush(flushes[2])

\* C6  Ingestion result counts: when a run has completed, each reported
\* count equals the number of nodes of that kind, respectively edges of that
\* type, in the store (all of which this run created or updated: the store
\* holds nothing but what runs on this input put there).
C6_CountsMatchStore ==
    pc = "done" =>
        /\ companies = Cardinality(NodesOf(store, "Company"))
        /\ persons = Cardinality(NodesOf(store, "Person"))
        /\ directorships = Cardinality(EdgesOf(store, "DIRECTORSHIP"))
        /\ ownerships = Cardinality(EdgesOf(store, "OWNERSHIP"))

\* the in-memory group a flush was made from
BatchOf(f) ==
    CASE f.group = "Company" -> company_batch
      [] f.group = "Person" -> person_batch
      [] f.group = "DIRECTORSHIP" -> directorship_batch
      [] f.group = "OWNERSHIP" -> ownership_batch

\* C7  Flush failure semantics: a flush that raised is the last one the run
\* attempted and the run has ended (nothing more can happen, so a failure in
\* the node pass leaves the relationship pass unstarted); the store is
\* exactly what the flushes committed before it made of the store the run
\* began with; and the failed batch is still in its group.
C7_FlushFailure ==
    /\ \A k \in DOMAIN flushes :
          ~flushes[k].ok =>
              /\ k = Len(flushes)
              /\ pc = "failed"
              /\ BatchOf(flushes[k]) = flushes[k].rows
    /\ store = Replay(store0, flushes)
    /\ pc = "failed" => ~ENABLED Next

\* a node flush raised after an earlier flush had committed
C7_Witness ==
    /\ pc = "failed"
    /\ Len(flushes) = 2
    /\ flushes[1].ok /\ ~flushes[2].ok /\ IsNodeFlush(flushes[2])
    /\ store # store0
    /\ Len(store.nodes) = 1
    /\ BatchOf(flushes[2]) # <<>>

\* C8  Batching discipline: after every record each group of the running
\* pass holds fewer than batch_size rows; no flush carries more than
\* batch_size rows or none; and when a pass has completed its groups are
\* empty and the rows submitted for each group, flush after flush, are
\* exactly the rows the input yields for it, in input order.
C8_Batching ==
    /\ pc = "import_nodes" =>
          Len(company_batch) < batch_size /\ Len(person_batch) < batch_size
    /\ pc = "import_relationships" =>
          Len(directorship_batch) < batch_size /\ Len(ownership_batch) < batch_size
    /\ \A k \in DOMAIN flushes :
          Len(flushes[k].rows) >= 1 /\ Len(flushes[k].rows) <= batch_size
    /\ pc \in {"import_relationships", "done"} =>
          /\ company_batch = <<>> /\ person_batch = <<>>
          /\ Submitted("nodes", "Company") = AcceptedNodes(input, "Company")
          /\ Submitted("nodes", "Person") = AcceptedNodes(input, "Person")
    /\ pc = "done" =>
          /\ directorship_batch = <<>> /\ ownership_batch = <<>>
          /\ Submitted("rels", "DIRECTORSHIP") = AcceptedRels(input, "DIRECTORSHIP")
          /\ Submitted("rels", "OWNERSHIP") = AcceptedRels(input, "OWNERSHIP")

\* a group reached the batch size in the loop and was flushed there, and
\* the final drain flushed the row that came after
C8_Witness ==
    /\ pc = "done"
    /\ batch_size = 2
    /\ Len(flushes) = 2
    /\ flushes[1].group = "Company" /\ Len(flushes[1].rows) = 2
    /\ flushes[2].group = "Company" /\ Len(flushes[2].rows) = 1
    /\ companies = 3

\* C9  Node identifier uniqueness: the store never holds two nodes of one
\* kind with the same identifier, and the node pass adds exactly one node per
\* (kind, identifier) that its committed rows name and the store did not
\* hold when the run began; rows for an existing identifier add none.
C9_NodeIdUnique ==
    LET committed == {k \in DOMAIN flushes : IsNodeFlush(flushes[k]) /\ flushes[k].ok}
        named == UNION {{<<flushes[k].group, flushes[k].rows[j].id>> :
                            j \in DOMAIN flushes[k].rows} : k \in committed}
        before == {KeyOf(store0, k) : k \in DOMAIN store0.nodes}
    IN  /\ \A j, k \in DOMAIN store.nodes : KeyOf(store, j) = KeyOf(store, k) => j = k
        /\ {KeyOf(store, k) : k \in DOMAIN store.nodes} = before \cup named
        /\ Len(store.nodes) = Cardinality(before \cup named)

\* a committed node flush carried rows for identifiers the store already
\* held, and a later row's attributes replaced the earlier ones in place
C9_Witness ==
    /\ run = 2
    /\ pc = "import_relationships" /\ pos = 1
    /\ \E k \in DOMAIN flushes :
          /\ IsNodeFlush(flushes[k]) /\ flushes[k].ok /\ flushes[k].group = "Company"
          /\ Len(flushes[k].rows) = 2
    /\ Len(store.nodes) = Len(store0.nodes)
    /\ Len(store.nodes) = 1


\* C10  Edge endpoint existence: every edge in the store starts and ends
\* at nodes the store holds, the endpoints are the nodes its record names,
\* and a run adds no more edges than its committed rows whose endpoint
\* identifiers both belong to nodes of the store.
C10_EndpointsExist ==
    /\ \A k \in DOMAIN store.edges :
          LET e == store.edges[k]
          IN  /\ e.src \in DOMAIN store.nodes
              /\ e.tgt \in DOMAIN store.nodes
              /\ \E j \in DOMAIN input :
                    /\ IsRelRecord(input[j], e.type)
                    /\ RelRowOf(input[j]).id = e.ftm_id
                    /\ RelRowOf(input[j]).source_id = store.nodes[e.src].ftm_id
                    /\ RelRowOf(input[j]).target_id = store.nodes[e.tgt].ftm_id
    /\ LET ids == {store.nodes[k].ftm_id : k \in DOMAIN store.nodes}
           committed == {k \in DOMAIN flushes : IsRelFlush(flushes[k]) /\ flushes[k].ok}
           applied == UNION {{<<k, j>> : j \in {i \in DOMAIN flushes[k].rows :
                                                   /\ flushes[k].rows[i].source_id \in ids
                                                   /\ flushes[k].rows[i].target_id \in ids}} :
                             k \in committed}
       IN  Len(store.edges) - Len(store0.edges) <= Cardinality(applied)

\* one committed flush carried only a row whose target is no node, another
\* a row whose endpoints resolve; the store holds the one edge of the latter
C10_Witness ==
    /\ pc = "done" /\ run = 1
    /\ batch_size = 1
    /\ \E k \in DOMAIN flushes :
          /\ IsRelFlush(flushes[k]) /\ flushes[k].ok
          /\ Resolve(store, flushes[k].rows[1].target_id) = {}
    /\ Len(store.edges) = 1
    /\ store.edges[1].src \in DOMAIN store.nodes

\* the last row the input yields for a node, by kind and identifier
LastNodeRow(inp, label, id) ==
    LET acc == AcceptedNodes(inp, label)
        hits == {j \in DOMAIN acc : acc[j].id = id}
    IN  acc[CHOOSE j \in hits : \A i \in hits : i <= j]

\* C11  Last-write-wins upsert: once the node pass has completed, every
\* node of the store carries the name, the datasets and the modified
\* timestamp of the last row the input yields for its kind and identifier,
\* whichever batches these rows fell in; a value the last row lacks is
\* absent on the node (name, timestamp) or empty (datasets).
C11_LastWriteWins ==
    pc \in {"import_relationships", "done"} =>
        \A k \in DOMAIN store.nodes :
            LET n == store.nodes[k]
                last == LastNodeRow(input, n.label, n.ftm_id)
            IN  /\ \E j \in DOMAIN input : IsNodeRecord(input[j], n.label) /\ input[j].id = n.ftm_id
                /\ n.name = last.name
                /\ n.datasets = last.datasets
                /\ n.modified_at = last.modified_at

\* three rows for one Company: a named one after an unnamed one in the
\* first batch, an unnamed one alone in the second; the node has no name
C11_Witness ==
    /\ pc = "done" /\ run = 1
    /\ batch_size = 2
    /\ input = <<E_CompanyAgain, E_Company, E_CompanyAgain>>
    /\ Len(flushes) = 2 /\ Len(flushes[1].rows) = 2
    /\ Len(store.nodes) = 1
    /\ store.nodes[1].name = None
    /\ store.nodes[1].datasets = <<>>
    /\ store.nodes[1].modified_at = "t2"

\* the kind of node an endpoint identifier binds to: coalesce(Person, Company)
BoundKind(st, id) ==
    IF \E k \in NodesOf(st, "Person") : st.nodes[k].ftm_id = id THEN "Person" ELSE "Company"

\* C12  Heterogeneous endpoint resolution: when a run has completed, every
\* edge row of the input whose source and target identifiers each belong to
\* a node of the store, of either kind, has exactly one edge of its type and
\* identifier between nodes with these identifiers; and each end of it is
\* the Person node when the identifier exists under both kinds, else the
\* Company node.
C12_EndpointResolution ==
    pc = "done" =>
        \A rel_type \in {"DIRECTORSHIP", "OWNERSHIP"} :
            \A j \in DOMAIN AcceptedRels(input, rel_type) :
                LET r == AcceptedRels(input, rel_type)[j]
                    ids == {store.nodes[k].ftm_id : k \in DOMAIN store.nodes}
                    es == {k \in EdgesOf(store, rel_type) :
                              /\ store.edges[k].ftm_id = r.id
                              /\ KeyOf(store, store.edges[k].src)[2] = r.source_id
                              /\ KeyOf(store, store.edges[k].tgt)[2] = r.target_id}
                IN  (r.source_id \in ids /\ r.target_id \in ids) =>
                        /\ Cardinality(es) = 1
                        /\ \A k \in es :
                              /\ KeyOf(store, store.edges[k].src)[1] = BoundKind(store, r.source_id)
                              /\ KeyOf(store, store.edges[k].tgt)[1] = BoundKind(store, r.target_id)

\* an Ownership whose owner and asset are one identifier that is both a
\* Company's and a Person's: the edge starts and ends at the Person
C12_Witness ==
    /\ pc = "done" /\ run = 1
    /\ Len(store.nodes) = 2 /\ Len(store.edges) = 1
    /\ \E c, p \in DOMAIN store.nodes :
          /\ store.nodes[c].label = "Company" /\ store.nodes[p].label = "Person"
          /\ store.nodes[c].ftm_id = store.nodes[p].ftm_id
          /\ store.edges[1].src = p /\ store.edges[1].tgt = p
    /\ store.edges[1].type = "OWNERSHIP"

\* ------------------------------------------------- the assembled subgraph
\* the rows the loop has dealt with
RowsDone == SubSeq(graph_rows, 1, row_pos - 1)

\* an absent role and the empty-string role are 'no role'
NoRole(role) == IF role = "" THEN None ELSE role

\* the (source, target, role) triples the rows name, 'no role' normalized
Triples(rs) ==
    {<<r.person_id, r.root_id, NoRole(r.role_to_root)>> :
        r \in {x \in Range(rs) : x.person_id \notin {None, ""} /\ x.root_id \notin {None, ""}}}
    \cup
    {<<r.person_id, r.other_company_id, NoRole(r.role_to_other)>> :
        r \in {x \in Range(rs) : x.person_id \notin {None, ""}
                                    /\ x.other_company_id \notin {None, ""}}}

\* C13  Subgraph edge deduplication: at every point of the loop, and in
\* the view returned, the links are exactly the (source, target, role)
\* triples of the rows dealt with, each once, where an absent role and an
\* empty-string role are the same 'no role' and two different non-empty
\* roles between the same nodes are two links.
C13_LinksDeduplicated ==
    /\ graph_pc \in {"loop", "returned"} =>
          /\ \A i, j \in DOMAIN links : links[i] = links[j] => i = j
          /\ \A i \in DOMAIN links : links[i].role # ""
          /\ {<<links[i].source, links[i].target, links[i].role>> : i \in DOMAIN links}
                 = Triples(RowsDone)
    /\ graph_out.kind = "view" => graph_out.links = links /\ RowsDone = result

\* three rows for one director of the root, with no role, with the empty
\* role and with a role: the view has two links
C13_Witness ==
    /\ graph_pc = "returned"
    /\ result = <<Q_Director, Q_DirectorBlankRole, Q_DirectorCeo>>
    /\ graph_out.kind = "view"
    /\ Len(graph_out.links) = 2
    /\ graph_out.links[1].role = None /\ graph_out.links[2].role = "CEO"

\* the (identifier, name) pairs the rows name, in the order the loop takes them
Mentions(rs) ==
    LET Of(r) == << [id |-> r.root_id, name |-> r.root_name],
                    [id |-> r.person_id, name |-> r.person_name],
                    [id |-> r.other_company_id, name |-> r.other_company_name] >>
        Named(m) == m.id \notin {None, ""}
    IN  SelectSeq(Concat(MapSeq(Of, rs)), Named)

\* C14  Name back-fill, never downgrade: at every point of the loop, and in
\* the view returned, there is one node per identifier the rows dealt with
\* name, and it carries the first non-empty name these rows give its
\* identifier (the name of its first row when none is non-empty): a later
\* name fills a missing one and never replaces one that is set.
C14_FirstNameWins ==
    /\ graph_pc \in {"loop", "returned"} =>
          LET ms == Mentions(RowsDone)
          IN  /\ \A i, j \in DOMAIN nodes_by_id :
                    nodes_by_id[i].id = nodes_by_id[j].id => i = j
              /\ {nodes_by_id[i].id : i \in DOMAIN nodes_by_id} = {ms[i].id : i \in DOMAIN ms}
              /\ \A i \in DOMAIN nodes_by_id :
                    LET all == {k \in DOMAIN ms : ms[k].id = nodes_by_id[i].id}
                        named == {k \in all : ms[k].name \notin {None, ""}}
                        from == IF named # {} THEN named ELSE all
                    IN  nodes_by_id[i].name = ms[CHOOSE k \in from : \A o \in from : k <= o].name
    /\ graph_out.kind = "view" => graph_out.nodes = nodes_by_id /\ RowsDone = result

\* root and director come without names first and with names next, and
\* last with other names; the other company comes with a name first
C14_Witness ==
    /\ graph_pc = "returned"
    /\ result = <<Q_Unnamed, Q_Director, Q_Renamed>>
    /\ graph_out.kind = "view"
    /\ graph_out.nodes = << [id |-> "n1", name |-> "Acme", type |-> "company"],
                            [id |-> "n2", name |-> "Jane", type |-> "person"],
                            [id |-> "n3", name |-> "Beta", type |-> "company"] >>

\* C15  End-to-end scenario: ingesting Company n1 'Acme', Person n2 'Jane'
\* and Directorship e1 (director n2, organization n1), in any record order,
\* into an empty store ends with exactly one Company, one Person and one
\* DIRECTORSHIP edge from the Person to the Company; and the subgraph
\* assembled for root n1 has exactly the nodes n1 (company, 'Acme') and n2
\* (person, 'Jane') and exactly one link, from n2 to n1.
C15_Scenario ==
    /\ pc = "done" =>
          /\ Len(store.nodes) = 2 /\ Len(store.edges) = 1
          /\ \E c \in NodesOf(store, "Company"), p \in NodesOf(store, "Person") :
                /\ store.nodes[c].ftm_id = "n1" /\ store.nodes[c].name = "Acme"
                /\ store.nodes[p].ftm_id = "n2" /\ store.nodes[p].name = "Jane"
                /\ store.edges[1].type = "DIRECTORSHIP" /\ store.edges[1].ftm_id = "e1"
                /\ store.edges[1].src = p /\ store.edges[1].tgt = c
    /\ (graph_out.kind = "view" /\ company_id = "n1") =>
          /\ Len(graph_out.nodes) = 2
          /\ Range(graph_out.nodes) = { [id |-> "n1", name |-> "Acme", type |-> "company"],
                                        [id |-> "n2", name |-> "Jane", type |-> "person"] }
          /\ Len(graph_out.links) = 1
          /\ graph_out.links[1].source = "n2" /\ graph_out.links[1].target = "n1"

\* the view for root n1 was returned after a run on the file that has the
\* Directorship first and the Company last
C15_Witness ==
    /\ pc = "done"
    /\ input = <<E_Directorship, E_Person, E_Company>>
    /\ company_id = "n1"
    /\ graph_pc = "returned"
    /\ graph_out.kind = "view"
    /\ Len(graph_out.links) = 1

\* the fulltext read has been made and raised
FulltextRaised == Len(search_reads) >= 1 /\ search_reads[1].outcome.kind # "rows"

\* the second read is the substring-match query for the caller's text and
\* limit, and the caller has got what it gave
FallbackServed ==
    /\ Len(search_reads) = 2
    /\ search_reads[2].read.cypher = "fallback"
    /\ search_reads[2].read.q = [text |-> search_query, star |-> FALSE]
    /\ search_reads[2].read.limit = search_limit
    /\ search_reads[2].outcome.kind = "rows"
    /\ search_pc = "returned"
    /\ search_out = [kind |-> "rows", rows |-> search_reads[2].outcome.rows]
    /\ \A k \in DOMAIN search_out.rows :
          /\ search_out.rows[k].score = 0
          /\ \E n \in NodesOf(store, "Company") :
                /\ store.nodes[n].ftm_id = search_out.rows[k].id
                /\ store.nodes[n].name = search_out.rows[k].name
                /\ Contains(toLower(Chars(store.nodes[n].name)), toLower(Chars(search_query)))
    /\ Len(search_out.rows) <= search_limit

\* C16 as claimed  Search fallback trigger: whenever the fulltext query has
\* raised an error of any kind and search_companies has ended, the caller
\* has the result of the substring-match query for the same text and limit,
\* not an error.
C16_AnyErrorFallsBack ==
    (FulltextRaised /\ search_pc \in {"returned", "raised"}) => FallbackServed

\* C16 as amended  Search fallback trigger: when the fulltext query has
\* raised an error the store reports for the query (a Neo4jError, such as
\* the index being absent), the substring-match query is run next for the
\* same text and limit and the caller gets its outcome, its rows or the
\* error it raises; any other error of the fulltext query (the store being
\* unavailable) reaches the caller and no fallback is run.
C16_Neo4jErrorFallsBack ==
    FulltextRaised =>
        IF search_reads[1].outcome.kind = "Neo4jError"
        THEN \/ /\ Len(search_reads) = 1
                /\ search_pc = "except"
                /\ search_out.kind = "none"
                /\ ENABLED SearchExcept
             \/ FallbackServed
             \/ /\ Len(search_reads) = 2
                /\ search_reads[2].read = [cypher |-> "fallback", limit |-> search_limit,
                                           q |-> [text |-> search_query, star |-> FALSE]]
                /\ search_reads[2].outcome.kind # "rows"
                /\ search_pc = "raised"
                /\ search_out = [kind |-> "error", error |-> search_reads[2].outcome.kind]
        ELSE /\ Len(search_reads) = 1
             /\ search_pc = "raised"
             /\ search_out = [kind |-> "error", error |-> search_reads[1].outcome.kind]

\* the fulltext index is absent, the fulltext query raised for it, and the
\* caller got the two companies whose names contain the text, whatever
\* the case of the letters
C16_Witness ==
    /\ "companyNameIndex" \notin indexes
    /\ FulltextRaised /\ search_reads[1].outcome.kind = "Neo4jError"
    /\ FallbackServed
    /\ search_query = "ac"
    /\ {search_out.rows[k].name : k \in DOMAIN search_out.rows} = {"Acme", "ACE"}

\* C17  No fallback on empty result: when the fulltext query has returned
\* without error, the caller has exactly its rows, with zero rows as with
\* more, the fulltext read is the only read made, for the caller's text as a
\* prefix and the caller's limit, and nothing more happens.
C17_NoFallbackOnEmpty ==
    (Len(search_reads) >= 1 /\ search_reads[1].outcome.kind = "rows") =>
        /\ Len(search_reads) = 1
        /\ search_reads[1].read = [cypher |-> "fulltext", limit |-> search_limit,
                                   q |-> [text |-> search_query, star |-> TRUE]]
        /\ search_pc = "returned"
        /\ search_out = [kind |-> "rows", rows |-> search_reads[1].outcome.rows]
        /\ ~ENABLED NextSearch

\* the fulltext query returned zero rows although a company's name contains
\* the text, so that the fallback query would have returned a row
C17_Witness ==
    /\ Len(search_reads) = 1
    /\ search_reads[1].outcome = [kind |-> "rows", rows |-> <<>>]
    /\ search_limit >= 1
    /\ FallbackMatches(store, [text |-> search_query, star |-> FALSE]) # {}
    /\ search_out = [kind |-> "rows", rows |-> <<>>]

\* C18  Assembler error propagation: get_company_graph issues one read
\* transaction and no second one; when it raises, the caller gets the error,
\* no view is built or returned, and nothing more happens.
C18_ReadErrorPropagates ==
    /\ Len(graph_reads) <= 1
    /\ \A k \in DOMAIN graph_reads :
          ~graph_reads[k].ok =>
              /\ graph_pc = "raised"
              /\ graph_out = [kind |-> "error"]
              /\ nodes_by_id = <<>> /\ links = <<>>
              /\ ~ENABLED NextAssembler
    /\ graph_out.kind = "view" => (Len(graph_reads) = 1 /\ graph_reads[1].ok)

\* the read raised on a store that holds rows for the root
C18_Witness ==
    /\ Len(graph_reads) = 1 /\ ~graph_reads[1].ok
    /\ Len(result) >= 1
    /\ graph_out.kind = "error"

\* --------------------------------------------------- what the reader yields
\* the file without its white space
Strip(f) == LET NotWs(p) == p.t # "ws" IN SelectSeq(f, NotWs)

\* the white space bytes the file begins with
LeadingWs(f) == SkipWs(f, 1) - 1

\* the dicts of the objects among the pieces, in file order
Objects(f) ==
    LET IsObj(p) == p.t = "obj"
        objs == SelectSeq(f, IsObj)
    IN  [k \in DOMAIN objs |-> objs[k].v]

IsValue(p) == p.t \in {"obj", "num"}

\* complete values one after the other, and bytes that are no JSON at the end
TrailingJunk(f) ==
    /\ Len(f) >= 2
    /\ f[Len(f)].t = "junk"
    /\ \A k \in 1..(Len(f) - 1) : IsValue(f[k]) \/ f[k].t = "ws"
    /\ Objects(f) # <<>>

\* s is v , v , ... , v
Separated(s) ==
    /\ Len(s) % 2 = 1
    /\ \A k \in DOMAIN s : IF k % 2 = 1 THEN IsValue(s[k]) ELSE s[k].t = "comma"

\* an array of complete values that the end of the file cuts short
ArrayCutShort(f) ==
    LET s == Strip(f)
    IN  /\ Len(s) >= 2
        /\ s[1].t = "open"
        /\ Separated(Tail(s))
        /\ Objects(f) # <<>>

\* C19  Malformed input tolerance in the reader: for a file whose complete
\* leading values are followed by bytes that are no JSON, or whose array of
\* complete values is cut short, iter_entities yields every complete leading
\* record and then ends without raising.
C19_TrailingBytesTolerated ==
    ( /\ TrailingJunk(file) \/ ArrayCutShort(file)
      /\ LeadingWs(file) < peek_bytes
      /\ reader_pc \in {"ended", "raised"} )
    => (reader_pc = "ended" /\ yielded = Objects(file))

\* s is [ v , ... , v ] or []
FlatArray(s) ==
    /\ Len(s) >= 2
    /\ s[1].t = "open" /\ s[Len(s)].t = "close"
    /\ Len(s) = 2 \/ Separated(SubSeq(s, 2, Len(s) - 1))

\* s is v v ... v
FlatValues(s) == s # <<>> /\ \A k \in DOMAIN s : IsValue(s[k])

\* C20  Reader mode selection: for every file, whatever white space it
\* begins with, iter_entities takes the array parser when the first byte
\* that is not white space is "[" and the parser of concatenated values
\* otherwise; of an array of values it yields the elements that are objects,
\* of concatenated values the values that are objects, in file order, and
\* ends; of a file with no byte that is not white space it yields nothing.
C20_ModeSelection ==
    reader_pc \in {"ended", "raised"} =>
        LET s == Strip(file)
        IN  /\ s = <<>> => (reader_pc = "ended" /\ yielded = <<>>)
            /\ s # <<>> => reader_mode = (IF s[1].t = "open" THEN "array" ELSE "multiple")
            /\ (FlatArray(s) \/ FlatValues(s)) => (reader_pc = "ended" /\ yielded = Objects(s))

\* ------------------------------------------------- what the classifier emits
\* the records of the file that the running pass has read
Seen == SubSeq(input, 1, pos - 1)

\* a record of the given node kind with a non-empty identifier
IsNodeOf(e, label) ==
    /\ "schema" \in DOMAIN e /\ e.schema = label
    /\ "id" \in DOMAIN e /\ e.id # ""

\* the first element of the list the record has as property key, absent
\* when the record has no such list or an empty one
FirstOfList(e, key) ==
    IF /\ "properties" \in DOMAIN e
       /\ key \in DOMAIN e.properties
       /\ "list" \in DOMAIN e.properties[key]
       /\ Len(e.properties[key].list) >= 1
    THEN e.properties[key].list[1]
    ELSE None

FirstOfNameList(e) == FirstOfList(e, "name")

\* the node rows of one kind this run has made so far: flushed or in the group
NodeRowsMade(label) ==
    Submitted("nodes", label) \o (IF label = "Company" THEN company_batch ELSE person_batch)

\* C21  Node classification: while the node pass runs, the rows made for
\* each kind are, one for one and in file order, the records read so far
\* whose schema is that kind and whose identifier is non-empty; each row has
\* its record's identifier and, as name, the first element of the record's
\* 'name' list (absent without such a list or with an empty one); the count
\* of the kind is the number of these records, so a record without
\* identifier is not counted; and the run fails on no record: only a
\* transaction that raised, or the index creation, ends it.
C21_NodeClassification ==
    /\ pc = "import_nodes" =>
          \A label \in {"Company", "Person"} :
              LET Is(e) == IsNodeOf(e, label)
                  recs == SelectSeq(Seen, Is)
                  rows == NodeRowsMade(label)
              IN  /\ Len(rows) = Len(recs)
                  /\ \A k \in DOMAIN rows :
                        /\ rows[k].id = recs[k].id
                        /\ rows[k].schema = label
                        /\ rows[k].name = FirstOfNameList(recs[k])
                  /\ (IF label = "Company" THEN companies ELSE persons) = Len(recs)
    /\ pc = "failed" => (flushes = <<>> \/ ~flushes[Len(flushes)].ok)

\* a Company without identifier was read and dropped, and the Company with
\* a scalar name after it became a node without name; one Company counted
C21_Witness ==
    /\ run = 1 /\ pc = "import_relationships"
    /\ input = <<E_CompanyNoId, E_CompanyScalarName>>
    /\ companies = 1 /\ persons = 0
    /\ Len(store.nodes) = 1
    /\ store.nodes[1].ftm_id = "n1" /\ store.nodes[1].name = None

\* the schema and the two endpoint properties of an edge type
EdgeSchema(rel_type) ==
    IF rel_type = "DIRECTORSHIP"
    THEN [schema |-> "Directorship", source |-> "director", target |-> "organization"]
    ELSE [schema |-> "Ownership", source |-> "owner", target |-> "asset"]

\* a record of the edge type's schema whose two endpoint lists each have a
\* first value
IsEdgeOf(e, rel_type) ==
    /\ "schema" \in DOMAIN e /\ e.schema = EdgeSchema(rel_type).schema
    /\ FirstOfList(e, EdgeSchema(rel_type).source) \notin {None, ""}
    /\ FirstOfList(e, EdgeSchema(rel_type).target) \notin {None, ""}

\* the edge rows of one type this run has made so far: flushed or in the group
RelRowsMade(rel_type) ==
    Submitted("rels", rel_type)
        \o (IF rel_type = "DIRECTORSHIP" THEN directorship_batch ELSE ownership_batch)

\* C22  Edge classification: for every record the relationship pass has
\* read, to_rel_row gives a row exactly when the record is a Directorship
\* with a first 'director' and a first 'organization' value or an Ownership
\* with a first 'owner' and a first 'asset' value, of type DIRECTORSHIP
\* respectively OWNERSHIP, with these values as source and target; and the
\* rows the pass has made for each type are, one for one and in file order,
\* these rows for the records that have an identifier.
C22_EdgeClassification ==
    pc = "import_relationships" =>
        /\ \A k \in DOMAIN Seen :
              LET e == Seen[k]
                  types == {t \in {"DIRECTORSHIP", "OWNERSHIP"} : IsEdgeOf(e, t)}
              IN  /\ (to_rel_row(e) = NoRow) <=> (types = {})
                  /\ \A t \in types :
                        /\ to_rel_row(e).rel_type = t
                        /\ to_rel_row(e).row.source_id = FirstOfList(e, EdgeSchema(t).source)
                        /\ to_rel_row(e).row.target_id = FirstOfList(e, EdgeSchema(t).target)
        /\ \A t \in {"DIRECTORSHIP", "OWNERSHIP"} :
              LET Is(e) == IsEdgeOf(e, t) /\ "id" \in DOMAIN e /\ e.id # ""
                  recs == SelectSeq(Seen, Is)
                  rows == RelRowsMade(t)
              IN  /\ Len(rows) = Len(recs)
                  /\ \A k \in DOMAIN rows :
                        /\ rows[k].id = recs[k].id
                        /\ rows[k].source_id = FirstOfList(recs[k], EdgeSchema(t).source)
                        /\ rows[k].target_id = FirstOfList(recs[k], EdgeSchema(t).target)

\* the pass has read a Directorship without organization, which gave no
\* row, and an Ownership with several owners and assets, whose row names the
\* first of each
C22_Witness ==
    /\ run = 1 /\ pc = "import_relationships" /\ pos = 3
    /\ input = <<E_DirectorshipNoOrganization, E_OwnershipByPerson>>
    /\ batch_size = 2
    /\ directorship_batch = <<>>
    /\ Len(ownership_batch) = 1
    /\ ownership_batch[1].source_id = "n2" /\ ownership_batch[1].target_id = "n1"
    /\ directorships = 0 /\ ownerships = 1

\* both lookup indexes exist and are online
IndexesReady == {"person_ftm_id", "company_ftm_id"} \subseteq indexes

\* C23  Index creation precedes writes: a run that has not got past
\* ensure_indexes has attempted no flush; every flush, of nodes or of edges,
\* is attempted in one of the two passes and with both indexes created and
\* online; and when ensure_indexes has raised the run has ended with no
\* flush attempted and attempts none.
C23_IndexesBeforeWrites ==
    /\ [](pc = "ensure_indexes" => flushes = <<>>)
    /\ [](flushes # <<>> => IndexesReady)
    /\ []((pc = "failed" /\ flushes = <<>>) => ~ENABLED Next)
    /\ [][(flushes' # flushes /\ flushes' # <<>>) =>
              (pc \in {"import_nodes", "import_relationships"} /\ IndexesReady)]_vars
    /\ [][(pc = "ensure_indexes" /\ pc' # pc) =>
              \/ pc' = "import_nodes" /\ IndexesReady'
              \/ pc' = "failed" /\ flushes' = <<>> /\ store' = store]_vars

\* the first flush of a run has committed a Company, with both indexes there
C23_Witness ==
    /\ run = 1 /\ pc = "import_nodes"
    /\ Len(flushes) = 1 /\ flushes[1].ok
    /\ IndexesReady
    /\ Len(store.nodes) = 1

\* every node and every edge of store a is in store b, the node with its
\* kind and identifier, the edge with its type, identifier and endpoints
Keeps(a, b) ==
    /\ \A k \in DOMAIN a.nodes :
          k \in DOMAIN b.nodes /\ KeyOf(b, k) = KeyOf(a, k)
    /\ \A k \in DOMAIN a.edges :
          /\ k \in DOMAIN b.edges
          /\ b.edges[k].type = a.edges[k].type /\ b.edges[k].ftm_id = a.edges[k].ftm_id
          /\ b.edges[k].src = a.edges[k].src /\ b.edges[k].tgt = a.edges[k].tgt

\* C24  No deletion by ingestion: every step of the pipeline, and so every
\* flush, leaves each stored node in the store with its kind and identifier
\* and each stored edge with its type, identifier and endpoints; whatever
\* the store held when a run began it holds at every later point of the
\* run.
C24_NoDeletion ==
    /\ [][Keeps(store, store')]_vars
    /\ [](Keeps(store0, store))

\* a second run has committed node and edge flushes onto a store that held
\* two nodes and an edge, and has added nothing
C24_Witness ==
    /\ run = 2 /\ pc = "done"
    /\ Len(store0.nodes) = 2 /\ Len(store0.edges) = 1
    /\ \E j, k \in DOMAIN flushes :
          IsNodeFlush(flushes[j]) /\ flushes[j].ok /\ IsRelFlush(flushes[k]) /\ flushes[k].ok
    /\ Len(store.nodes) = 2 /\ Len(store.edges) = 1

\* an identifier that is absent or empty
Missing(id) == id = None \/ id = ""

\* C25  Missing endpoint suppresses the link: the loop's step for a row
\* whose person identifier is absent or empty leaves the links and the
\* dedup set as they were; for a row whose other-company identifier is
\* absent or empty it adds at most the one link to the root; and no link
\* and no key of the dedup set ever has an absent or empty source or target.
C25_MissingEndpointNoLink ==
    /\ [][(graph_pc = "loop" /\ row_pos' = row_pos + 1) =>
              LET r == graph_rows[row_pos]
              IN  /\ (Missing(r.person_id) \/ (Missing(r.root_id) /\ Missing(r.other_company_id)))
                        => (links' = links /\ links_set' = links_set)
                  /\ Missing(r.other_company_id) =>
                        /\ links_set' \ links_set \subseteq {k \in links_set' : k[2] = r.root_id}
                        /\ Len(links') <= Len(links) + 1
                  /\ SubSeq(links', 1, Len(links)) = links
                  /\ links_set \subseteq links_set']_vars
    /\ [](/\ \A k \in DOMAIN links : ~Missing(links[k].source) /\ ~Missing(links[k].target)
          /\ \A key \in links_set : ~Missing(key[1]) /\ ~Missing(key[2]))

\* a row with an empty person identifier, a role and another company gave
\* no link, and the row of a director without other company gave one
C25_Witness ==
    /\ graph_pc = "returned"
    /\ result = <<Q_BlankPerson, Q_Director>>
    /\ graph_out.kind = "view"
    /\ graph_out.links = <<[source |-> "n2", target |-> "n1", role |-> None]>>
    /\ Cardinality(links_set) = 1

\* ------------------------------------- the assembler on stores of some size
\* a second director of the Company n1, and directorships into two companies
E_PersonJoe ==
    [ id |-> "n4", schema |-> "Person", properties |-> [name |-> [list |-> <<"Joe">>]] ]
E_DirectorshipJoe ==
    [ id |-> "e2", schema |-> "Directorship",
      properties |-> [director |-> [list |-> <<"n4">>], organization |-> [list |-> <<"n1">>]] ]
E_DirectorshipJaneAce ==
    [ id |-> "e3", schema |-> "Directorship",
      properties |-> [director |-> [list |-> <<"n2">>], organization |-> [list |-> <<"n3">>]] ]
\* a second Directorship record of the same director in the same Company
E_DirectorshipJaneAgain ==
    [ id |-> "e5", schema |-> "Directorship",
      properties |-> [director |-> [list |-> <<"n2">>], organization |-> [list |-> <<"n1">>]] ]

\* a second Directorship record of the same director in the other Company
E_DirectorshipJaneAceAgain ==
    [ id |-> "e6", schema |-> "Directorship",
      properties |-> [director |-> [list |-> <<"n2">>], organization |-> [list |-> <<"n3">>]] ]

\* a file of two companies, two persons and their directorships
TraversalFile ==
    << E_Company, E_CompanyAce, E_Person, E_PersonJoe,
       E_Directorship, E_DirectorshipJoe, E_DirectorshipJaneAce, E_DirectorshipJaneAgain,
       E_DirectorshipJaneAceAgain >>

\* the records of seq at the positions in keep, in their order
RECURSIVE Selected(_, _, _)
Selected(seq, keep, k) ==
    IF k > Len(seq) THEN <<>>
    ELSE (IF k \in keep THEN <<seq[k]>> ELSE <<>>) \o Selected(seq, keep, k + 1)

\* the stores that runs of main() on parts of the file end with
TraversalStores ==
    {Ingest(Selected(TraversalFile, keep, 1), 1, EmptyStore).store :
        keep \in SUBSET DOMAIN TraversalFile}

\* ingestion has completed; get_company_graph is called on its store
InitTraversal ==
    /\ input = <<>>
    /\ batch_size = 1
    /\ run = 1
    /\ pc = "done"
    /\ pos = 1
    /\ indexes = {"person_ftm_id", "company_ftm_id"}
    /\ store \in TraversalStores
    /\ store0 = EmptyStore
    /\ flushes = <<>>
    /\ company_batch = <<>> /\ person_batch = <<>> /\ companies = 0 /\ persons = 0
    /\ directorship_batch = <<>> /\ ownership_batch = <<>>
    /\ directorships = 0 /\ ownerships = 0
    /\ first = [done |-> FALSE, store |-> EmptyStore, counts |-> <<0, 0, 0, 0>>]
    /\ GraphIdle
    /\ SearchIdle
    /\ ReaderIdle
    /\ MockIdle
    /\ LegacyIdle

NextTraversal ==
    \/ GetCompanyGraphCall
    \/ GetCompanyGraphRead
    \/ GetCompanyGraphRow
    \/ GetCompanyGraphReturn

SpecTraversal == InitTraversal /\ [][NextTraversal]_vars

\* C26  Bounded subgraph size: the store answers the traversal query with
\* at most QueryLimit rows (500 in the source), however many bindings the
\* stored graph has for the root; the links never exceed two per row dealt
\* with and the nodes never one plus two per row dealt with, so that the
\* view returned has at most 2 * QueryLimit links and 1 + 2 * QueryLimit
\* nodes.
C26_BoundedView ==
    /\ Len(result) <= QueryLimit
    /\ Len(graph_rows) <= QueryLimit
    /\ graph_pc \in {"loop", "returned"} =>
          /\ Len(links) <= 2 * Len(RowsDone)
          /\ Len(nodes_by_id) <= 1 + 2 * Len(RowsDone)
    /\ graph_out.kind = "view" =>
          /\ Len(graph_out.links) <= 2 * QueryLimit
          /\ Len(graph_out.nodes) <= 1 + 2 * QueryLimit

\* the stored graph has more bindings for the root than the limit, and the
\* view returned was folded from QueryLimit rows
C26_Witness ==
    /\ graph_pc = "returned"
    /\ graph_out.kind = "view"
    /\ Cardinality(TraversalBindings(store, company_id)) > QueryLimit
    /\ Len(graph_rows) = QueryLimit
    /\ Len(graph_out.nodes) = 4

\* ------------------------------------------- the reader on well-formed files
\* The pieces of one JSON value: a number, an object, an empty array, an
\* array that holds an object.
V_Num == <<Piece("num")>>
V_Obj(entity) == <<ObjPiece(entity)>>
V_EmptyArray == <<Piece("open"), Piece("close")>>
V_ArrayOfObj == <<Piece("open"), ObjPiece(E_Company), Piece("close")>>

FileValues == {V_Num, V_Obj(E_Company), V_Obj(E_Person), V_EmptyArray, V_ArrayOfObj}

\* v , v , ... , v
RECURSIVE JoinComma(_)
JoinComma(vs) ==
    IF vs = <<>> THEN <<>>
    ELSE IF Len(vs) = 1 THEN vs[1]
    ELSE vs[1] \o <<Piece("comma")>> \o JoinComma(Tail(vs))

\* the file that holds the values as one top-level array
ArrayFile(vs) == <<Piece("open")>> \o JoinComma(vs) \o <<Piece("close")>>

\* the file that holds the values one after the other
ValuesFile(vs) == Concat(vs)

\* the files of up to MaxValues values, as an array or as concatenated values
\* that do not begin with an array, after white space or none
WellFormedFiles ==
    LET seqs == InputsOver(FileValues, MaxValues)
        bare == {ArrayFile(vs) : vs \in seqs}
                \cup {ValuesFile(vs) : vs \in {x \in seqs : x = <<>> \/ x[1][1].t # "open"}}
    IN  bare \cup {<<Piece("ws")>> \o f : f \in bare}

\* iter_entities is called on a well-formed file
InitReaderValues ==
    /\ IngestIdle
    /\ GraphIdle
    /\ SearchIdle
    /\ MockIdle
    /\ LegacyIdle
    /\ file \in WellFormedFiles
    /\ reader_pc = "created"
    /\ reader_mode = None
    /\ reader_pos = 1
    /\ yielded = <<>>

SpecReaderValues == InitReaderValues /\ [][NextReader]_vars

\* the dicts of the values that are objects, in their order
ObjectsAmong(vs) ==
    LET IsObj(v) == Len(v) = 1 /\ v[1].t = "obj"
        objs == SelectSeq(vs, IsObj)
    IN  [k \in DOMAIN objs |-> objs[k][1].v]

IsPrefix(a, b) == Len(a) <= Len(b) /\ SubSeq(b, 1, Len(a)) = a

\* C27  Non-object skip: for every file that holds values as one top-level
\* array, or one after the other, iter_entities takes the array parser
\* respectively the parser of concatenated values, never raises, yields at
\* every point a prefix of the values that are objects, in file order, and
\* has yielded all of them when it ends; numbers and arrays among the
\* values, before, between or after the objects, are skipped.
C27_NonObjectsSkipped ==
    \A vs \in InputsOver(FileValues, MaxValues) :
        \A mode \in {"array", "multiple"} :
            LET f == IF mode = "array" THEN ArrayFile(vs) ELSE ValuesFile(vs)
            IN  ((file = f \/ file = <<Piece("ws")>> \o f) /\ reader_mode = mode) =>
                    /\ reader_pc # "raised"
                    /\ IsPrefix(yielded, ObjectsAmong(vs))
                    /\ reader_pc = "ended" => yielded = ObjectsAmong(vs)

\* an array of an object, a number and another object has been read to its
\* end: both objects were yielded, in file order
C27_Witness ==
    /\ file = ArrayFile(<<V_Obj(E_Person), V_Num, V_Obj(E_Company)>>)
    /\ reader_mode = "array"
    /\ reader_pc = "ended"
    /\ yielded = <<E_Person, E_Company>>

\* ------------------------------------------------------ the mock endpoint
\* next(c) of an itertools.cycle: the item at its position, and the cycle
\* moved on by one, back to the first item after the last
\* variant: the cycle stays where it is
cycle_next_mut_NoAdvance(c) == [item |-> c.items[c.k], cycle |-> c]
cycle_next(c) ==
    [item |-> c.items[c.k], cycle |-> [c EXCEPT !.k = IF c.k = Len(c.items) THEN 1 ELSE c.k + 1]]

\* the ids that requests name
MockIds == {"n1", "n2", "HRB1"}

\* GET /companies/{id}/hr-ai-mock: return next(_mock_data_cycle)
GetHandelsregisterAiMock ==
    /\ Len(mock_responses) < MaxRequests
    /\ \E id \in MockIds :
          LET r == cycle_next(mock_data_cycle)
          IN  /\ mock_data_cycle' = r.cycle
              /\ mock_responses' = Append(mock_responses, [id |-> id, data |-> r.item])
    /\ UNCHANGED notMock

\* the process has started; requests to hr-ai-mock arrive
InitMock ==
    /\ IngestIdle
    /\ GraphIdle
    /\ SearchIdle
    /\ ReaderIdle
    /\ MockIdle
    /\ LegacyIdle

NextMock == GetHandelsregisterAiMock

SpecMock == InitMock /\ [][NextMock]_vars

\* C28  Mock dataset alternation: of the requests served since process
\* start, the first, third, ... got the OroraTech dataset and the second,
\* fourth, ... the HOCHTIEF dataset, whatever ids they named; so no two
\* consecutive requests got the same dataset.
C28_MockAlternates ==
    /\ \A k \in DOMAIN mock_responses :
          mock_responses[k].data = IF k % 2 = 1 THEN ororatech_data ELSE hochtief_data
    /\ \A k \in DOMAIN mock_responses :
          k > 1 => mock_responses[k].data # mock_responses[k - 1].data

\* three requests for one id were served: the third got the OroraTech
\* dataset again, after the HOCHTIEF dataset
C28_Witness ==
    /\ Len(mock_responses) = 3
    /\ \A k \in DOMAIN mock_responses : mock_responses[k].id = "n1"
    /\ mock_responses[2].data = hochtief_data
    /\ mock_responses[3].data = ororatech_data

\* ------------------------------------ the single-pass importer (legacy)
\* flush_companies, one row: MERGE (c:Company {ftm_id: data.id})
\* SET c.name, c.address, c.status
MergeCompany(st, data) ==
    LET hit == {k \in DOMAIN st.nodes :
                   st.nodes[k].label = "Company" /\ st.nodes[k].ftm_id = data.id}
        merged == IF hit = {}
                  THEN Append(st.nodes, [ label |-> "Company", ftm_id |-> data.id, name |-> None,
                                          address |-> None, status |-> None ])
                  ELSE st.nodes
        bound == IF hit = {} THEN {Len(merged)} ELSE hit
    IN  [st EXCEPT !.nodes =
            [k \in DOMAIN merged |->
                IF k \in bound
                THEN [merged[k] EXCEPT !.name = data.name, !.address = data.address,
                                       !.status = data.status]
                ELSE merged[k]]]

RECURSIVE flush_companies(_, _)
flush_companies(st, batch) ==
    IF batch = <<>> THEN st ELSE flush_companies(MergeCompany(st, Head(batch)), Tail(batch))

\* MERGE (p)-[r:DIRECTORSHIP]->(c) SET r.role, r.start_date, for the bound
\* pairs (p, c)
RECURSIVE MergeDirectorships(_, _, _)
MergeDirectorships(st, data, pairs) ==
    IF pairs = {} THEN st
    ELSE LET pr == CHOOSE q \in pairs :
                     \A o \in pairs : q[1] < o[1] \/ (q[1] = o[1] /\ q[2] <= o[2])
             hit == {k \in DOMAIN st.edges :
                        /\ st.edges[k].type = "DIRECTORSHIP"
                        /\ st.edges[k].src = pr[1] /\ st.edges[k].tgt = pr[2]}
             merged == IF hit = {}
                       THEN Append(st.edges, [ type |-> "DIRECTORSHIP", src |-> pr[1], tgt |-> pr[2],
                                               role |-> None, start_date |-> None ])
                       ELSE st.edges
             bound == IF hit = {} THEN {Len(merged)} ELSE hit
             next == [st EXCEPT !.edges =
                         [k \in DOMAIN merged |->
                             IF k \in bound
                             THEN [merged[k] EXCEPT !.role = data.role,
                                                    !.start_date = data.start_date]
                             ELSE merged[k]]]
         IN  MergeDirectorships(next, data, pairs \ {pr})

\* flush_officers, one row: MERGE (p:Person {name: data.name}) WITH p, data
\* MATCH (c:Company {ftm_id: data.company_id}) MERGE (p)-[r:DIRECTORSHIP]->(c)
OfficerRow(st, data) ==
    LET hit == {k \in DOMAIN st.nodes :
                   st.nodes[k].label = "Person" /\ st.nodes[k].name = data.name}
        merged == IF hit = {}
                  THEN [st EXCEPT !.nodes = Append(@, [ label |-> "Person", ftm_id |-> None,
                                                        name |-> data.name, address |-> None,
                                                        status |-> None ])]
                  ELSE st
        ps == IF hit = {} THEN {Len(merged.nodes)} ELSE hit
        cs == {k \in DOMAIN merged.nodes :
                  merged.nodes[k].label = "Company" /\ merged.nodes[k].ftm_id = data.company_id}
    IN  MergeDirectorships(merged, data, ps \X cs)

RECURSIVE flush_officers(_, _)
flush_officers(st, batch) ==
    IF batch = <<>> THEN st ELSE flush_officers(OfficerRow(st, Head(batch)), Tail(batch))

\* for off in entry.get("officers", []): if name: officer_batch.append({...})
RECURSIVE OfficerRows(_, _)
OfficerRows(number, officers) ==
    IF officers = <<>> THEN <<>>
    ELSE (IF Truthy(Get(Head(officers), "name"))
          THEN << [ company_id |-> number, name |-> Head(officers).name,
                    role |-> Get(Head(officers), "position"),
                    start_date |-> Get(Head(officers), "start_date") ] >>
          ELSE <<>>)
         \o OfficerRows(number, Tail(officers))

\* one iteration of the loop of import_data; okC, okO: whether the
\* session.run of flush_companies, of flush_officers goes through
import_data_body(s, entry, size, okC, okO) ==
    LET number == Get(entry, "company_number")
        cb == Append(s.company_batch,
                     [ id |-> number, name |-> Get(entry, "name"),
                       address |-> Get(entry, "registered_address"),
                       status |-> Get(entry, "current_status") ])
        ob == s.officer_batch
                \o OfficerRows(number,
                               IF "officers" \in DOMAIN entry THEN entry.officers ELSE <<>>)
        fullC == Len(cb) >= size
        fullO == Len(ob) >= size
        afterC == IF fullC THEN flush_companies(s.store, cb) ELSE s.store
    IN  IF ~Truthy(number) THEN s
        ELSE IF fullC /\ ~okC
        THEN [s EXCEPT !.company_batch = cb, !.officer_batch = ob, !.count = @ + 1,
                       !.raised = TRUE]
        ELSE IF fullO /\ ~okO
        THEN [s EXCEPT !.company_batch = IF fullC THEN <<>> ELSE cb, !.officer_batch = ob,
                       !.count = @ + 1, !.store = afterC, !.raised = TRUE]
        ELSE [s EXCEPT !.company_batch = IF fullC THEN <<>> ELSE cb,
                       !.officer_batch = IF fullO THEN <<>> ELSE ob,
                       !.count = @ + 1,
                       !.store = IF fullO THEN flush_officers(afterC, ob) ELSE afterC]

\* if company_batch: flush_companies(...); if officer_batch: flush_officers(...)
import_data_drain(s, okC, okO) ==
    LET afterC == flush_companies(s.store, s.company_batch)
    IN  IF s.company_batch # <<>> /\ ~okC THEN [s EXCEPT !.raised = TRUE]
        ELSE IF s.officer_batch # <<>> /\ ~okO THEN [s EXCEPT !.store = afterC, !.raised = TRUE]
        ELSE [s EXCEPT !.store = flush_officers(afterC, s.officer_batch)]

LegacyState ==
    [ company_batch |-> company_batch, officer_batch |-> officer_batch, count |-> count,
      store |-> store, raised |-> FALSE ]

\* one entry of the file
ImportDataStep ==
    /\ pc = "import_data"
    /\ pos <= Len(input)
    /\ \E okC, okO \in BOOLEAN :
          LET s == import_data_body(LegacyState, input[pos], batch_size, okC, okO)
          IN  /\ company_batch' = s.company_batch
              /\ officer_batch' = s.officer_batch
              /\ count' = s.count
              /\ store' = s.store
              /\ pc' = IF s.raised THEN "import_data_raised" ELSE "import_data"
    /\ pos' = pos + 1
    /\ UNCHANGED <<input, batch_size, run, indexes, store0, flushes, person_batch, companies,
                   persons, relLocals, first>>
    /\ UNCHANGED notLegacy

\* the end of the file: the rest of both batches is written
ImportDataReturn ==
    /\ pc = "import_data"
    /\ pos > Len(input)
    /\ \E okC, okO \in BOOLEAN :
          LET s == import_data_drain(LegacyState, okC, okO)
          IN  /\ store' = s.store
              /\ pc' = IF s.raised THEN "import_data_raised" ELSE "import_data_done"
    /\ UNCHANGED <<input, batch_size, run, pos, indexes, store0, flushes, nodeLocals, relLocals,
                   first>>
    /\ UNCHANGED legacyVars
    /\ UNCHANGED notLegacy

\* entries of a file of the single-pass importer
Entry_Acme ==
    [ company_number |-> "c1", name |-> "Acme",
      officers |-> << [name |-> "Jane", position |-> "CEO"] >> ]
Entry_Beta ==
    [ company_number |-> "c2", name |-> "Beta",
      officers |-> << [name |-> "Jane", position |-> "CFO"], [name |-> "Joe"] >> ]
\* an entry without company number
Entry_NoNumber == [ name |-> "Ghost", officers |-> << [name |-> "Jane"] >> ]
\* an entry without officers
Entry_NoOfficers == [ company_number |-> "c3", name |-> "Solo" ]
\* an entry with an officer without name
Entry_Unnamed ==
    [ company_number |-> "c3", officers |-> << [position |-> "CEO"], [name |-> "Joe"] >> ]

Entries == {Entry_Acme, Entry_Beta, Entry_NoNumber, Entry_NoOfficers, Entry_Unnamed}

\* import_data is called on an empty store
InitLegacy ==
    /\ input \in InputsOver(Entries, MaxEntries)
    /\ batch_size \in BatchSizes
    /\ run = 1
    /\ pc = "import_data"
    /\ pos = 1
    /\ indexes = {"company_id", "person_name"}
    /\ store = EmptyStore
    /\ store0 = EmptyStore
    /\ flushes = <<>>
    /\ company_batch = <<>> /\ person_batch = <<>> /\ companies = 0 /\ persons = 0
    /\ directorship_batch = <<>> /\ ownership_batch = <<>>
    /\ directorships = 0 /\ ownerships = 0
    /\ first = [done |-> FALSE, store |-> EmptyStore, counts |-> <<0, 0, 0, 0>>]
    /\ GraphIdle
    /\ SearchIdle
    /\ ReaderIdle
    /\ MockIdle
    /\ LegacyIdle

NextLegacy ==
    \/ ImportDataStep
    \/ ImportDataReturn

SpecLegacy == InitLegacy /\ [][NextLegacy]_vars

\* C29  Single-pass legacy importer keeps every officer link: when
\* import_data has completed without error on an empty store, for every
\* entry with a company number and every officer of it with a name the
\* store holds a DIRECTORSHIP edge from the Person of that name to the
\* Company of that number, for every batch size.
C29_LegacyKeepsOfficerLinks ==
    pc = "import_data_done" =>
        \A k \in DOMAIN input :
            Truthy(Get(input[k], "company_number")) =>
                \A o \in Range(IF "officers" \in DOMAIN input[k] THEN input[k].officers ELSE <<>>) :
                    Truthy(Get(o, "name")) =>
                        \E e \in DOMAIN store.edges :
                            /\ store.edges[e].type = "DIRECTORSHIP"
                            /\ store.nodes[store.edges[e].src].label = "Person"
                            /\ store.nodes[store.edges[e].src].name = o.name
                            /\ store.nodes[store.edges[e].tgt].label = "Company"
                            /\ store.nodes[store.edges[e].tgt].ftm_id = input[k].company_number

\* the identifiers of the nodes of a node list
IdsOf(nodes) == {nodes[k].id : k \in DOMAIN nodes}

\* every link of ls starts and ends at a node of ns, and no two nodes of ns
\* have one identifier
Closed(ns, ls) ==
    /\ \A k \in DOMAIN ls : ls[k].source \in IdsOf(ns) /\ ls[k].target \in IdsOf(ns)
    /\ Cardinality(IdsOf(ns)) = Len(ns)

\* C30  Link closure of the subgraph view: after every row of the loop,
\* and in the view returned, the source and the target of every link are
\* identifiers of nodes of the node list, and the node list holds each
\* identifier once.
C30_LinkClosure ==
    /\ graph_pc \in {"loop", "returned"} => Closed(nodes_by_id, links)
    /\ graph_out.kind = "view" => Closed(graph_out.nodes, graph_out.links)

\* the view of one row with a director and another company of the
\* director: three nodes, and two links between them
C30_Witness ==
    /\ graph_pc = "returned"
    /\ result = <<Q_Unnamed>>
    /\ graph_out.kind = "view"
    /\ IdsOf(graph_out.nodes) = {"n1", "n2", "n3"}
    /\ Len(graph_out.links) = 2
    /\ graph_out.links[2].target = "n3"

\* the value a record has as property key: the scalar itself, or the first
\* element of the list; absent without the property or with an empty list
FirstValue(e, key) ==
    IF "properties" \in DOMAIN e /\ key \in DOMAIN e.properties
    THEN IF "scalar" \in DOMAIN e.properties[key] THEN e.properties[key].scalar
         ELSE IF e.properties[key].list # <<>> THEN e.properties[key].list[1]
         ELSE None
    ELSE None

\* the record has a scalar, not a list, as property key
HasScalar(e, key) ==
    /\ "properties" \in DOMAIN e /\ key \in DOMAIN e.properties
    /\ "scalar" \in DOMAIN e.properties[key]

\* C31  Scalar property values are handled like lists: the node row of a
\* record the node pass has read whose 'name' is a scalar carries that
\* scalar as name; and a Directorship or Ownership the relationship pass
\* has read that has an identifier and whose endpoint properties each
\* have a value, scalar or first of a list, has a row with these values as
\* source and target: it is not dropped.
C31_ScalarsLikeLists ==
    /\ pc = "import_nodes" =>
          \A label \in {"Company", "Person"} :
              \A k \in DOMAIN Seen :
                  (IsNodeOf(Seen[k], label) /\ HasScalar(Seen[k], "name")) =>
                      \E r \in Range(NodeRowsMade(label)) :
                          r.id = Seen[k].id /\ r.name = Seen[k].properties.name.scalar
    /\ pc = "import_relationships" =>
          \A t \in {"DIRECTORSHIP", "OWNERSHIP"} :
              \A k \in DOMAIN Seen :
                  LET e == Seen[k]
                      source == FirstValue(e, EdgeSchema(t).source)
                      target == FirstValue(e, EdgeSchema(t).target)
                  IN  ( /\ "schema" \in DOMAIN e /\ e.schema = EdgeSchema(t).schema
                        /\ "id" \in DOMAIN e /\ e.id # ""
                        /\ Truthy(source) /\ Truthy(target) ) =>
                          \E r \in Range(RelRowsMade(t)) :
                              r.id = e.id /\ r.source_id = source /\ r.target_id = target

\* --------------------------------- edge records without their own identifier
\* an Ownership of the Company by itself whose identifier is the empty string
E_OwnershipBlankId ==
    [ id |-> "", schema |-> "Ownership",
      properties |-> [owner |-> [list |-> <<"n1">>], asset |-> [list |-> <<"n1">>]] ]

\* two nodes, an edge between them, and edges between them without identifier
NoIdEntities == {E_Company, E_Person, E_Directorship, E_DirectorshipNoId, E_OwnershipBlankId}

InitNoId == InitOver(InputsOver(NoIdEntities, MaxLenNoId))

\* the same program on files of these records
SpecNoId == InitNoId /\ [][Next]_vars

\* a Directorship or Ownership with both endpoints and no identifier
EdgeWithoutId(e) ==
    /\ \E t \in {"DIRECTORSHIP", "OWNERSHIP"} : IsEdgeOf(e, t)
    /\ ("id" \notin DOMAIN e \/ e.id = "")

\* the records of the file that are edges of the type and have an identifier
EdgesWithId(inp, t) ==
    LET Is(e) == IsEdgeOf(e, t) /\ ~EdgeWithoutId(e) IN SelectSeq(inp, Is)

\* C32  Edge records without their own identifier: the step of the
\* relationship pass that reads a Directorship or Ownership with both
\* endpoints and no identifier leaves both groups, both counts, the store
\* and the transactions attempted as they were; no group and no edge of the
\* store is ever without identifier; and the totals of a completed pass
\* are the numbers of edge records with both endpoints that have an
\* identifier.
C32_EdgeWithoutIdDropped ==
    /\ [][ ( /\ pc = "import_relationships" /\ pos <= Len(input) /\ pos' = pos + 1
             /\ EdgeWithoutId(input[pos]) )
           => UNCHANGED <<directorship_batch, ownership_batch, directorships, ownerships,
                          store, flushes>> ]_vars
    /\ [] ( /\ \A r \in Range(directorship_batch) \cup Range(ownership_batch) : Truthy(r.id)
            /\ \A e \in Range(store.edges) : Truthy(e.ftm_id)
            /\ pc = "done" =>
                  /\ directorships = Len(EdgesWithId(input, "DIRECTORSHIP"))
                  /\ ownerships = Len(EdgesWithId(input, "OWNERSHIP")) )

\* both nodes are stored, the pass has read the Directorship between them
\* that has no identifier, and nothing was grouped, counted or written for it
C32_Witness ==
    /\ run = 1 /\ pc = "import_relationships" /\ pos = 4
    /\ input = <<E_Company, E_Person, E_DirectorshipNoId>>
    /\ Len(store.nodes) = 2 /\ store.edges = <<>>
    /\ directorship_batch = <<>> /\ directorships = 0

\* ------------------------------------------------ one identifier, two roles
\* the (identifier, type) pairs the rows name, in the order the loop takes
\* them: root, person, other company
Roles(rs) ==
    LET Of(r) == << [id |-> r.root_id, type |-> "company"],
                    [id |-> r.person_id, type |-> "person"],
                    [id |-> r.other_company_id, type |-> "company"] >>
        Named(m) == m.id \notin {None, ""}
    IN  SelectSeq(Concat(MapSeq(Of, rs)), Named)

\* the nodes are one per identifier the rows name, each of the type of the
\* first occurrence of its identifier
FirstRoleTypes(ns, rs) ==
    LET ms == Roles(rs)
    IN  /\ \A i, j \in DOMAIN ns : ns[i].id = ns[j].id => i = j
        /\ {ns[i].id : i \in DOMAIN ns} = {ms[k].id : k \in DOMAIN ms}
        /\ \A i \in DOMAIN ns :
              LET all == {k \in DOMAIN ms : ms[k].id = ns[i].id}
              IN  ns[i].type = ms[CHOOSE k \in all : \A o \in all : k <= o].type

\* C33  Node kind is fixed at first sight: at every point of the loop, and in
\* the view returned, there is one node per identifier the rows dealt with
\* name, under whatever roles, and its type is the type of the first
\* occurrence of the identifier in row order (root, then person, then other
\* company within a row); and no row of the loop changes the identifier or
\* the type of a node that is already there.
C33_KindFixedAtFirstSight ==
    /\ [] ( /\ graph_pc \in {"loop", "returned"} => FirstRoleTypes(nodes_by_id, RowsDone)
            /\ graph_out.kind = "view" => FirstRoleTypes(graph_out.nodes, result) )
    /\ [][ (graph_pc = "loop" /\ graph_pc' \in {"loop", "returned"}) =>
              \A k \in DOMAIN nodes_by_id :
                  /\ k \in DOMAIN nodes_by_id'
                  /\ nodes_by_id'[k].id = nodes_by_id[k].id
                  /\ nodes_by_id'[k].type = nodes_by_id[k].type ]_vars

\* n3 comes first as a person and, in the next row, as another company: it
\* stays a person; n1 is the root before it is a director and stays a company
C33_Witness ==
    /\ graph_pc = "returned"
    /\ result = <<Q_PersonIsOther, Q_Unnamed, Q_PersonIsRoot>>
    /\ graph_out.kind = "view"
    /\ graph_out.nodes = << [id |-> "n1", name |-> "Acme", type |-> "company"],
                            [id |-> "n3", name |-> "Eve", type |-> "person"],
                            [id |-> "n2", name |-> None, type |-> "person"] >>

\* ------------------------------------------------------- degenerate roots
\* the Company nodes of the store with the identifier
RootsOf(st, id) == {k \in NodesOf(st, "Company") : st.nodes[k].ftm_id = id}

\* the DIRECTORSHIP edges of the store into the node k
DirectorshipsInto(st, k) == {e \in EdgesOf(st, "DIRECTORSHIP") : st.edges[e].tgt = k}

\* C34  Degenerate roots: get_company_graph raises only when its read
\* transaction did, and otherwise returns a view; for an identifier that
\* is the identifier of no Company of the store the query gives no row and
\* the view has no nodes and no links; for a Company without a
\* DIRECTORSHIP edge into it the view has exactly one node, the root with
\* its stored name and type company, and no links.
C34_DegenerateRoots ==
    /\ graph_pc = "raised" => ~graph_reads[Len(graph_reads)].ok
    /\ graph_pc = "returned" => graph_out.kind = "view"
    /\ (graph_pc \in {"read", "loop", "returned"} /\ RootsOf(store, company_id) = {}) =>
          result = <<>>
    /\ graph_out.kind = "view" =>
          /\ RootsOf(store, company_id) = {} =>
                graph_out.nodes = <<>> /\ graph_out.links = <<>>
          /\ \A k \in RootsOf(store, company_id) :
                DirectorshipsInto(store, k) = {} =>
                    /\ graph_out.nodes = << [ id |-> company_id, name |-> store.nodes[k].name,
                                              type |-> "company" ] >>
                    /\ graph_out.links = <<>>

\* the view for n2, the identifier of a stored Person that is director of
\* the stored Company n1: it is empty
C34_Witness ==
    /\ graph_pc = "returned"
    /\ company_id = "n2"
    /\ \E k \in NodesOf(store, "Person") : store.nodes[k].ftm_id = "n2"
    /\ \E k \in RootsOf(store, "n1") : DirectorshipsInto(store, k) # {}
    /\ graph_out = [kind |-> "view", nodes |-> <<>>, links |-> <<>>]

====
